---- MODULE Spec2Model ----
(***************************************************************************)
(* Verification model of blark: the grammar-to-AST transformer             *)
(* (src/blark/transform.py), the batch parsing front end                   *)
(* (src/blark/parse.py) and the Sphinx domain (src/blark/sphinxdomain.py). *)
(*                                                                         *)
(* The module holds several specifications over one set of variables:      *)
(*   SpecMerge  - merge_comments walking an AST with a pending comment list *)
(*   SpecParse  - main and parse_project over the items of a solution       *)
(*   SpecTransform - GrammarTransformer walking a parse tree bottom-up       *)
(*   SpecRender - the node constructors (from_lark) and renderers (__str__) *)
(*   SpecLex    - the patterns and the line map over a source text           *)
(*   SpecEngine, SpecEngineConcurrent - get_parser with one or two callers   *)
(*   SpecAnnotate - the objects handlers return and their meta               *)
(*   SpecRegistry - _rule_handler and the rule-to-handler table              *)
(*   SpecDomain - the directives and find_obj of BlarkDomain                 *)
(***************************************************************************)
EXTENDS Integers, Sequences, FiniteSets, TLC

(***************************************************************************)
(* Bounds of the model.                                                    *)
(***************************************************************************)
MaxNodes == 3
MaxLine == 2
MaxComments == 2
MaxItems == 3
MaxProjects == 2
MaxLeaves == 5
MaxCalls == 2

VARIABLES
    ast,            \* merge: the transformed tree, a sequence of nodes
    comments,       \* merge: the pending comment list (mutated in place)
    allComments,    \* merge: the comment list as first handed over
    metaComments,   \* merge: per node, meta.comments
    stack,          \* merge: pending merge_comments calls, innermost first
    visited,        \* merge: the nodes merge_comments was called on, in order
    input,          \* parse: what main is called with (filename kind, debug, items)
    pc,             \* parse: where main stands
    proj,           \* parse: index of the project parse_project is working on
    item,           \* parse: index of the next source item of that project
    presults,       \* parse: parse_project's local `results`
    psuccess,       \* parse: parse_project's local `success`
    results,        \* parse: main's `results`
    success,        \* parse: main's `success`
    returned,       \* parse: what each parse_project call returned, in call order
    parsed,         \* parse: the items parse_source_code was called on
    raised,         \* parse: the parses that raised
    report,         \* parse: the lines of main's failure report
    tstack,         \* transform: transformed children waiting for their parent rule
    tleaves,        \* transform: the number of leaves the parse tree has delivered
    tcalls,         \* transform: the number of _call_userfunc calls made
    tlast,          \* transform: the last _call_userfunc call: rule, children, result
    tpc,            \* transform: "run", or "error" once a handler has raised
    rin,            \* render: the children a handler is given, and the interpreter
    rnode,          \* render: the node the handler built
    rtext,          \* render: str(node)
    rpc,            \* render: "lex", "built", "done"
    lsrc,           \* lex: the source text
    lfound,         \* lex: the matches of finditer, as [pattern, start, end]
    lmap,           \* lex: index_to_line_number, entry o + 1 for offset o
    lpc,            \* lex: "parsed", "pragmas", "lines", "comments", "done"
    _PARSER,        \* engine: the module's parser, NoneValue until constructed
    built,          \* engine: how many engines have been constructed
    ecalls,         \* engine: how many calls have been started
    callers,        \* engine: each caller's operation, position and constructed engine
    ehist,          \* engine: what the calls returned or raised, in order
    objs,           \* annotate: the objects, each with its class, meta and children
    apending,       \* annotate: the child a handler returned that waits for its parent, or 0
    afile,          \* annotate: the file being transformed
    acalls,         \* annotate: how many handlers have run
    _rule_to_handler,\* registry: the handler class of each rule name
    _lark_,         \* registry: each class's _lark_ attribute, the empty tuple when it has none
    regLast,        \* registry: the last registration: class, rules, outcome
    regCalls,       \* registry: how many registrations have been made
    classHandlers,  \* registry: what _get_class_handlers returned
    domaindata,     \* domain: env.domaindata['bk'], table name to target to nodes
    dfound,         \* domain: the last find_obj call: role, target, result
    dcalls          \* domain: how many directives have run

mergeVars == <<ast, comments, allComments, metaComments, stack, visited>>

parseVars == <<input, pc, proj, item, presults, psuccess, results, success,
               returned, parsed, raised, report>>

transVars == <<tstack, tleaves, tcalls, tlast, tpc>>

renderVars == <<rin, rnode, rtext, rpc>>

lexVars == <<lsrc, lfound, lmap, lpc>>

engineVars == <<_PARSER, built, ecalls, callers, ehist>>

annotVars == <<objs, apending, afile, acalls>>

registryVars == <<_rule_to_handler, _lark_, regLast, regCalls, classHandlers>>

domainVars == <<domaindata, dfound, dcalls>>

vars == <<mergeVars, parseVars, transVars, renderVars, lexVars, engineVars, annotVars, registryVars, domainVars>>

notMerge == <<parseVars, transVars, renderVars, lexVars, engineVars, annotVars, registryVars, domainVars>>

notParse == <<mergeVars, transVars, renderVars, lexVars, engineVars, annotVars, registryVars, domainVars>>

notTrans == <<mergeVars, parseVars, renderVars, lexVars, engineVars, annotVars, registryVars, domainVars>>

notRender == <<mergeVars, parseVars, transVars, lexVars, engineVars, annotVars, registryVars, domainVars>>

notDomain == <<mergeVars, parseVars, transVars, renderVars, lexVars, engineVars, annotVars, registryVars>>

notRegistry == <<mergeVars, parseVars, transVars, renderVars, lexVars, engineVars, annotVars, domainVars>>

notAnnot == <<mergeVars, parseVars, transVars, renderVars, lexVars, engineVars, registryVars, domainVars>>

notEngine == <<mergeVars, parseVars, transVars, renderVars, lexVars, annotVars, registryVars, domainVars>>

notLex == <<mergeVars, parseVars, transVars, renderVars, engineVars, annotVars, registryVars, domainVars>>

IdleEngine ==
    /\ _PARSER = <<"None">>
    /\ built = 0
    /\ ecalls = 0
    /\ callers = <<>>
    /\ ehist = <<>>

IdleAnnot ==
    /\ objs = <<>>
    /\ apending = 0
    /\ afile = 0
    /\ acalls = 0

IdleRegistry ==
    /\ _rule_to_handler = <<>>
    /\ _lark_ = <<>>
    /\ regLast = <<>>
    /\ regCalls = 0
    /\ classHandlers = <<>>

IdleDomain ==
    /\ domaindata = <<>>
    /\ dfound = <<>>
    /\ dcalls = 0

IdleMerge ==
    /\ ast = <<>>
    /\ comments = <<>>
    /\ allComments = <<>>
    /\ metaComments = <<>>
    /\ stack = <<>>
    /\ visited = <<>>

IdleParse ==
    /\ input = <<>>
    /\ pc = "idle"
    /\ proj = 0
    /\ item = 0
    /\ presults = <<>>
    /\ psuccess = TRUE
    /\ results = <<>>
    /\ success = TRUE
    /\ returned = <<>>
    /\ parsed = {}
    /\ raised = {}
    /\ report = <<>>

IdleTrans ==
    /\ tstack = <<>>
    /\ tleaves = 0
    /\ tcalls = 0
    /\ tlast = <<>>
    /\ tpc = "idle"

IdleRender ==
    /\ rin = <<>>
    /\ rnode = <<>>
    /\ rtext = <<>>
    /\ rpc = "idle"

IdleLex ==
    /\ lsrc = <<>>
    /\ lfound = <<>>
    /\ lmap = <<>>
    /\ lpc = "idle"

(***************************************************************************)
(* merge_comments  (transform.py 2430-2453)                                *)
(*                                                                         *)
(* A node is [kind, meta, parent].  kind is what the isinstance chain of   *)
(* merge_comments tells apart: "consumer" (a dataclass whose type is in    *)
(* _comment_consumers), "dataclass" (any other dataclass), "list" (list or *)
(* tuple) and "tree" (lark.Tree, lark.Token, None or anything else).  meta *)
(* is 0 when getattr(source, "meta", None) is None and meta.line           *)
(* otherwise.  parent is the index of the holder (0 for the root); the     *)
(* fields / items of a node are its children in index order.               *)
(***************************************************************************)
Lines == 1..MaxLine

\* the line of a node that is no comment consumer is never read: one line stands for all
NodeShapes ==
    [kind : {"consumer"}, meta : 0..MaxLine]
        \cup [kind : {"dataclass"}, meta : {0, 1}]
        \cup [kind : {"list", "tree"}, meta : {0}]

IsTree(a) ==
    /\ a[1].parent = 0
    /\ \A i \in 2..Len(a) : a[i].parent \in 1..(i - 1)

Children(n) == SelectSeq([i \in 1..Len(ast) |-> i], LAMBDA i : ast[i].parent = n)

_comment_consumers(node) == node.kind = "consumer"

is_dataclass(node) == node.kind \in {"consumer", "dataclass"}

LineBefore(comment, metaLine) == comment.line < metaLine

LineAtOrAfter(comment, metaLine) == comment.line >= metaLine

LineAtOrBefore_Any(comment, metaLine) == TRUE

LineAtOrBefore(comment, metaLine) == comment.line <= metaLine

\* the number of iterations of `while comments and comments[0].line <= meta.line`
RECURSIVE LeadCount(_, _)
LeadCount(cs, metaLine) ==
    IF cs # <<>> /\ LineAtOrBefore(Head(cs), metaLine)
    THEN 1 + LeadCount(Tail(cs), metaLine)
    ELSE 0

PopLeadingOne(cs, k) == IF k = 0 THEN cs ELSE Tail(cs)

PopLeadingKeep(cs, k) == cs

\* the list after k times comments.pop(0)
PopLeading(cs, k) == SubSeq(cs, k + 1, Len(cs))

Reverse(s) == [i \in 1..Len(s) |-> s[Len(s) + 1 - i]]

WalkOrderReversed(n) == Reverse(Children(n))

\* the fields of a dataclass / the items of a list, in the order they are walked
WalkOrder(n) == Children(n)

InitMerge ==
    /\ \E n \in 1..MaxNodes :
         \E shapes \in [1..n -> NodeShapes], parents \in [1..n -> 0..(n - 1)] :
            /\ ast = [i \in 1..n |-> [kind |-> shapes[i].kind,
                                       meta |-> shapes[i].meta,
                                       parent |-> parents[i]]]
            /\ IsTree(ast)
    /\ \E k \in 0..MaxComments :
         \E ls \in [1..k -> Lines] :
            allComments = [i \in 1..k |-> [id |-> i, line |-> ls[i]]]
    /\ comments = allComments
    /\ metaComments = [i \in 1..Len(ast) |-> <<>>]
    /\ stack = <<1>>
    /\ visited = <<>>
    /\ IdleParse
    /\ IdleTrans
    /\ IdleRender
    /\ IdleLex /\ IdleEngine /\ IdleAnnot /\ IdleRegistry /\ IdleDomain

\* `if source is None or not comments: return`; None is a "tree" node here
MergeReturn ==
    /\ stack # <<>>
    /\ comments = <<>>
    /\ stack' = Tail(stack)
    /\ visited' = Append(visited, Head(stack))
    /\ UNCHANGED <<ast, comments, allComments, metaComments, notMerge>>

\* `if isinstance(source, (lark.Tree, lark.Token)): ...` and the fall-through
MergeTreeOrToken ==
    /\ stack # <<>>
    /\ comments # <<>>
    /\ ast[Head(stack)].kind = "tree"
    /\ stack' = Tail(stack)
    /\ visited' = Append(visited, Head(stack))
    /\ UNCHANGED <<ast, comments, allComments, metaComments, notMerge>>

\* `elif isinstance(source, (list, tuple)): for item in source: merge_comments(...)`
MergeList ==
    /\ stack # <<>>
    /\ comments # <<>>
    /\ ast[Head(stack)].kind = "list"
    /\ stack' = WalkOrder(Head(stack)) \o Tail(stack)
    /\ visited' = Append(visited, Head(stack))
    /\ UNCHANGED <<ast, comments, allComments, metaComments, notMerge>>

\* `elif is_dataclass(source):` attach the leading comments, then walk the fields
MergeDataclass ==
    /\ stack # <<>>
    /\ comments # <<>>
    /\ is_dataclass(ast[Head(stack)])
    /\ LET n == Head(stack)
           k == IF ast[n].meta # 0 /\ _comment_consumers(ast[n])
                THEN LeadCount(comments, ast[n].meta)
                ELSE 0
       IN  /\ metaComments' = [metaComments EXCEPT ![n] = @ \o SubSeq(comments, 1, k)]
           /\ comments' = PopLeading(comments, k)
           /\ stack' = WalkOrder(n) \o Tail(stack)
           /\ visited' = Append(visited, n)
    /\ UNCHANGED <<ast, allComments, notMerge>>

NextMerge ==
    \/ MergeReturn
    \/ MergeTreeOrToken
    \/ MergeList
    \/ MergeDataclass

SpecMerge == InitMerge /\ [][NextMerge]_vars

(***************************************************************************)
(* Properties of merge_comments                                            *)
(***************************************************************************)
Nodes == 1..Len(ast)

Sorted(cs) == \A i, j \in 1..Len(cs) : i < j => cs[i].line <= cs[j].line

Range(s) == {s[i] : i \in 1..Len(s)}

IsPrefix(s, t) == Len(s) <= Len(t) /\ SubSeq(t, 1, Len(s)) = s

\* the places (node, position) at which comment c is attached
Attachments(c) ==
    UNION {{<<n, j>> : j \in {k \in 1..Len(metaComments[n]) : metaComments[n][k] = c}} :
             n \in Nodes}

IsConsumerWithMeta(n) == ast[n].kind = "consumer" /\ ast[n].meta # 0

RECURSIVE Flatten(_)
Flatten(ss) == IF ss = <<>> THEN <<>> ELSE Head(ss) \o Flatten(Tail(ss))

\* document order: a node before its fields, fields in declaration order, list
\* items in order; what a lark.Tree holds is not walked
RECURSIVE Preorder(_)
Preorder(n) ==
    IF ast[n].kind = "tree"
    THEN <<n>>
    ELSE <<n>> \o Flatten([i \in 1..Len(Children(n)) |-> Preorder(Children(n)[i])])

\* C3: each comment of the original list is attached to at most one node (and
\* once), and every node that carries a comment is of a registered
\* comment-consumer type.
C3_AttachedAtMostOnceToConsumers ==
    /\ \A i \in 1..Len(allComments) : Cardinality(Attachments(allComments[i])) <= 1
    /\ \A n \in Nodes : metaComments[n] # <<>> => _comment_consumers(ast[n])

C3_Witness ==
    /\ stack = <<>>
    /\ \E n, m \in Nodes :
         /\ n # m
         /\ metaComments[n] # <<>>
         /\ metaComments[m] # <<>>
         /\ metaComments[n][1].line <= ast[m].meta
    /\ \E d \in Range(visited) : ast[d].kind = "dataclass" /\ ast[d].meta # 0

\* C4: a visit of a comment-consumer node with line L, the pending list being
\* ordered by line, moves to the node, in list order, every pending comment with
\* line <= L; right after the visit the pending list is empty or starts with a
\* comment of line > L.
C4_VisitMovesLeading ==
    [][(/\ stack # <<>>
        /\ visited' = Append(visited, Head(stack))
        /\ IsConsumerWithMeta(Head(stack))
        /\ Sorted(comments))
       => LET n == Head(stack)
              L == ast[n].meta
          IN  /\ metaComments'[n] =
                    metaComments[n] \o SelectSeq(comments, LAMBDA c : c.line <= L)
              /\ comments' = SelectSeq(comments, LAMBDA c : c.line > L)
              /\ comments' = <<>> \/ Head(comments').line > L
              /\ \A m \in Nodes \ {n} : metaComments'[m] = metaComments[m]]_vars

C4_Witness ==
    /\ Sorted(allComments)
    /\ visited # <<>>
    /\ LET n == visited[Len(visited)]
       IN  /\ IsConsumerWithMeta(n)
           /\ metaComments[n] # <<>>
           /\ metaComments[n][Len(metaComments[n])].line = ast[n].meta
           /\ comments # <<>>
           /\ Head(comments).line > ast[n].meta

\* a VAR block: the root is the block, holding an optional config token and a
\* list of declarations, each a comment consumer on a line of its own
Declarations == {d \in Nodes : d # 1 /\ ast[d].kind = "consumer"}

IsVarBlock ==
    /\ IsConsumerWithMeta(1)
    /\ Declarations # {}
    /\ \A i \in Nodes \ {1} :
         \/ ast[i].kind \in {"list", "tree"} /\ ast[i].parent = 1
         \/ /\ IsConsumerWithMeta(i)
            /\ ast[i].meta >= ast[1].meta
            /\ ast[ast[i].parent].kind = "list"
    /\ \A d, e \in Declarations : ast[d].parent = ast[e].parent

FirstConsumerAtOrAfter(c) ==
    LET order == Preorder(1)
        hits == {k \in 1..Len(order) :
                    IsConsumerWithMeta(order[k]) /\ ast[order[k]].meta >= c.line}
    IN  IF hits = {} THEN 0
        ELSE order[CHOOSE k \in hits : \A h \in hits : k <= h]

\* C6: the merge is single pass and greedy: what is attached to a node stays
\* there and is attached nowhere else, a comment is only ever taken from the
\* pending list, and with an ordered comment list the first consumer in document
\* order whose line is >= the comment's line is the one that receives it.
C6_GreedyFirstVisitedWins ==
    [][/\ \A n \in Nodes : IsPrefix(metaComments[n], metaComments'[n])
       /\ \A n \in Nodes : \A j \in (Len(metaComments[n]) + 1)..Len(metaComments'[n]) :
            /\ metaComments'[n][j] \in Range(comments)
            /\ metaComments'[n][j] \notin Range(comments')
            /\ \A m \in Nodes : metaComments'[n][j] \notin Range(metaComments[m])
       /\ (stack' = <<>> /\ Sorted(allComments)) =>
            \A i \in 1..Len(allComments) :
               LET f == FirstConsumerAtOrAfter(allComments[i])
               IN  f # 0 => allComments[i] \in Range(metaComments'[f])]_vars

C6_Witness ==
    /\ stack = <<>>
    /\ Sorted(allComments)
    /\ \E n, m \in Nodes :
         /\ n # m
         /\ IsConsumerWithMeta(n)
         /\ IsConsumerWithMeta(m)
         /\ metaComments[n] # <<>>
         /\ metaComments[n][1].line <= ast[m].meta
         /\ metaComments[m] = <<>>
         /\ FirstConsumerAtOrAfter(metaComments[n][1]) = n

\* the comments no node carries, in the order of the original list
Unattached ==
    SelectSeq(allComments, LAMBDA c : \A n \in Nodes : c \notin Range(metaComments[n]))

\* the nodes merge_comments has not been called on yet
Unvisited == Len(ast) - Len(visited)

\* C24: merge_comments terminates on every AST and comment list: each call
\* takes a node never visited before, of which there are finitely many, and
\* a call is possible until none is left to make; a comment whose line is
\* greater than the line of every comment consumer stays in the pending list
\* and nothing is raised; when the transform is over, the transformer's
\* comments list holds exactly the unattached comments.
C24_TerminatesAndKeepsOrphans ==
    /\ [][Unvisited' < Unvisited]_vars
    /\ [](/\ Unvisited >= 0
          /\ stack # <<>> => ENABLED NextMerge)
    /\ [](stack = <<>> =>
            /\ comments = Unattached
            /\ \A i \in 1..Len(allComments) :
                  (\A n \in Nodes : IsConsumerWithMeta(n) => allComments[i].line > ast[n].meta)
                     => allComments[i] \in Range(comments))

C24_Witness ==
    /\ stack = <<>>
    /\ comments # <<>>
    /\ \E n \in Nodes : metaComments[n] # <<>>
    /\ \A n \in Nodes : IsConsumerWithMeta(n) => comments[Len(comments)].line > ast[n].meta

\* C26: at every point of merge_comments the comment lists of the nodes, in
\* the order the nodes were visited, followed by the pending list give the
\* original comment list: order is kept, no comment is lost or duplicated.
C26_CommentsOnlyTakenFromFront ==
    Flatten([i \in 1..Len(visited) |-> metaComments[visited[i]]]) \o comments = allComments

C26_Witness ==
    /\ Cardinality({n \in Nodes : metaComments[n] # <<>>}) >= 2
    /\ Len(visited) = Len(ast)

(***************************************************************************)
(* parse_project and main  (parse.py 98-144, 177-226)                      *)
(*                                                                         *)
(* A source item is [name, status, project]: its key in dut_by_name /      *)
(* gvl_by_name / pou_by_name, what happens to it, and the project of the   *)
(* solution that holds it.  status is "noattr" (no get_source_code         *)
(* attribute), "empty" (get_source_code() gives nothing), "ok" (the parse  *)
(* gives a tree) or "raises" (parse_source_code raises).  The items of a   *)
(* project are listed plc by plc, DUTs, GVLs, then POUs; two items of one  *)
(* project may share a name (different kinds or different plcs).  An item  *)
(* is identified by its position and stands for its filename too.         *)
(***************************************************************************)
NameList == <<"a", "b", "c">>

Names == {NameList[i] : i \in 1..Len(NameList)}

NameIndex(name) == CHOOSE i \in 1..Len(NameList) : NameList[i] = name

\* names matter only through which items share one, so they are drawn in the
\* order of their first use
InOrderOfFirstUse(nm, n) ==
    \A i \in 1..n :
       \A k \in 1..(NameIndex(nm[i]) - 1) : \E j \in 1..(i - 1) : NameIndex(nm[j]) = k

ItemStatus == {"noattr", "empty", "ok", "raises"}

FilenameKinds == {"tsproj", "sln", "source", "other"}

ItemsOf(q) == {k \in 1..Len(input.items) : input.items[k].project = q}

\* the k-th item of project q, in the order the loops of parse_project meet them
NthItemOf(q, k) ==
    CHOOSE j \in ItemsOf(q) : Cardinality({h \in ItemsOf(q) : h <= j}) = k

SetItem(d, key, value) ==
    [k \in DOMAIN d \cup {key} |-> IF k = key THEN value ELSE d[k]]

TreeOf(src) == [type |-> "Tree", src |-> src, filename |-> <<>>]

\* `except Exception as ex: results[name] = ex; ex.filename = source_item.filename`
ExceptionOf(src) == [type |-> "Exception", src |-> src, filename |-> <<src>>]

SuccessOfLast(before, itemRaised) == ~itemRaised

\* `success = False` in the except branch, untouched otherwise
SuccessAfter(before, itemRaised) == IF itemRaised THEN FALSE ELSE before

InitParse ==
    /\ IdleMerge
    /\ IdleTrans
    /\ IdleRender
    /\ IdleLex /\ IdleEngine /\ IdleAnnot /\ IdleRegistry /\ IdleDomain
    /\ \E kind \in FilenameKinds, debug \in BOOLEAN, n \in 0..MaxItems,
          np \in 0..MaxProjects, fileRaises \in BOOLEAN :
         \E nm \in {f \in [1..n -> Names] : InOrderOfFirstUse(f, n)},
            st \in [1..n -> ItemStatus],
            pr \in {f \in [1..n -> 1..np] : \A i, j \in 1..n : i < j => f[i] <= f[j]} :
            /\ kind = "tsproj" => np = 1
            /\ kind \in {"source", "other"} => np = 0 /\ n = 0
            /\ kind # "source" => ~fileRaises
            /\ input = [kind |-> kind, debug |-> debug, projects |-> np,
                        fileRaises |-> fileRaises,
                        items |-> [i \in 1..n |->
                                     [name |-> nm[i], status |-> st[i], project |-> pr[i]]]]
    /\ pc = "start"
    /\ proj = 0
    /\ item = 0
    /\ presults = <<>>
    /\ psuccess = TRUE
    /\ results = <<>>
    /\ success = TRUE
    /\ returned = <<>>
    /\ parsed = {}
    /\ raised = {}
    /\ report = <<>>

\* main, lines 182-196: sort the filename into project_fns / source_fns
MainStart ==
    /\ pc = "start"
    /\ pc' = CASE input.kind = "other" -> "ValueError"
               [] input.kind = "source" -> "sources"
               [] input.projects = 0 -> "report"
               [] OTHER -> "items"
    /\ proj' = IF input.kind \in {"tsproj", "sln"} /\ input.projects > 0 THEN 1 ELSE 0
    /\ item' = 1
    /\ presults' = <<>>
    /\ psuccess' = TRUE
    /\ UNCHANGED <<input, results, success, returned, parsed, raised, report, notParse>>

\* one round of `for name, source_item in source_items` that ends in `continue`
ItemSkipped ==
    /\ pc = "items"
    /\ item <= Cardinality(ItemsOf(proj))
    /\ input.items[NthItemOf(proj, item)].status \in {"noattr", "empty"}
    /\ item' = item + 1
    /\ UNCHANGED <<input, pc, proj, presults, psuccess, results, success, returned,
                   parsed, raised, report, notParse>>

\* one round that reaches the try block: results[name] is the tree or the exception
ItemParsed ==
    /\ pc = "items"
    /\ item <= Cardinality(ItemsOf(proj))
    /\ LET src == NthItemOf(proj, item)
           it == input.items[src]
           itemRaised == it.status = "raises"
       IN  /\ it.status \in {"ok", "raises"}
           /\ parsed' = parsed \cup {src}
           /\ raised' = IF itemRaised THEN raised \cup {src} ELSE raised
           /\ presults' = SetItem(presults, it.name,
                                  IF itemRaised THEN ExceptionOf(src) ELSE TreeOf(src))
           /\ psuccess' = SuccessAfter(psuccess, itemRaised)
    /\ item' = item + 1
    /\ UNCHANGED <<input, pc, proj, results, success, returned, report, notParse>>

\* `return success, results`, and main's `success, results[fn] = parse_project(...)`
ProjectReturn ==
    /\ pc = "items"
    /\ item > Cardinality(ItemsOf(proj))
    /\ returned' = Append(returned, [success |-> psuccess, results |-> presults])
    /\ success' = psuccess
    /\ results' = SetItem(results, proj, [type |-> "dict", value |-> presults])
    /\ IF proj < input.projects
       THEN /\ proj' = proj + 1
            /\ pc' = "items"
       ELSE /\ proj' = proj
            /\ pc' = "report"
    /\ item' = 1
    /\ presults' = <<>>
    /\ psuccess' = TRUE
    /\ UNCHANGED <<input, parsed, raised, report, notParse>>

\* `for fn in source_fns`: results[fn] is set only when parse_single_file returns
SingleFile ==
    /\ pc = "sources"
    /\ parsed' = parsed \cup {0}
    /\ IF input.fileRaises
       THEN /\ raised' = raised \cup {0}
            /\ success' = FALSE
            /\ results' = results
       ELSE /\ raised' = raised
            /\ success' = success
            /\ results' = SetItem(results, 0, [type |-> "Tree", value |-> <<>>])
    /\ pc' = "report"
    /\ UNCHANGED <<input, proj, item, presults, psuccess, returned, report, notParse>>

\* find_failures(results): the (name, item) pairs whose item is an Exception,
\* looked for in results and in the dicts it holds
find_failures(res) ==
    UNION {IF res[k].type = "dict"
           THEN {[name |-> nm, error |-> res[k].value[nm].src,
                  filename |-> res[k].value[nm].filename] :
                     nm \in {x \in DOMAIN res[k].value : res[k].value[x].type = "Exception"}}
           ELSE {} : k \in DOMAIN res}

\* lines 219-226: the report is printed when success is false and debug is off
Report ==
    /\ pc = "report"
    /\ report' = IF ~success /\ ~input.debug
                 THEN <<[header |-> "Failed to parse all source code files:",
                         failures |-> find_failures(results)]>>
                 ELSE <<>>
    /\ pc' = "done"
    /\ UNCHANGED <<input, proj, item, presults, psuccess, results, success, returned,
                   parsed, raised, notParse>>

NextParse ==
    \/ MainStart
    \/ ItemSkipped
    \/ ItemParsed
    \/ ProjectReturn
    \/ SingleFile
    \/ Report

SpecParse == InitParse /\ [][NextParse]_vars

(***************************************************************************)
(* GrammarTransformer  (transform.py 2313-2427) and the from_lark handlers *)
(*                                                                         *)
(* The transformer walks the parse tree bottom-up: the leaves of a subtree *)
(* and its already transformed subtrees are handed, in order, to the       *)
(* handler of the subtree's rule.  tstack holds the transformed values not *)
(* yet handed to a parent.  A value is a tuple that starts with its class: *)
(*   <<"None">>                      a placeholder of an absent optional   *)
(*   <<"Token", text>>               lark.Token                            *)
(*   <<"Tree", data, children>>      lark.Tree                             *)
(*   <<"BinaryOperation", left, op, right>>                                *)
(*   <<"ElseClause", statements>>                                          *)
(*   <<"ElseIfClause", if_expression, statements>>                         *)
(*   <<"IfStatement", if_expression, statements, else_ifs, else_clause>>   *)
(*   <<"CaseStatement", expression, cases, else_clause>>                   *)
(*   <<"Error", type>>               the exception a handler raised        *)
(***************************************************************************)
NoneValue == <<"None">>

Token(text) == <<"Token", text>>

Error(type) == <<"Error", type>>

IsError(v) == v[1] = "Error"

\* the text of the k-th leaf token of the source
TokenText ==
    <<"a", "+", "b", "-", "c", "*", "d", "/", "e", "<", "f", ">", "g", "=", "h">>

\* the rules with a handler registered through _rule_handler (those modelled)
HandlerRules ==
    {"expression", "if_statement", "case_statement", "else_clause", "else_if_clause"}

\* a rule of the grammar no class handles (parse.py 65 names it; transform.py
\* 2278 lists it as TODO)
UnhandledRules == {"data_type_declaration"}

Front(s) == SubSeq(s, 1, Len(s) - 1)

Last(s) == s[Len(s)]

BinaryOperation(left, op, right) == <<"BinaryOperation", left, op, right>>

FoldStepRestart(binop, left, operator, expression) ==
    BinaryOperation(left, operator, expression)

\* one round of the loop of BinaryOperation.from_lark
FoldStep(binop, left, operator, expression) ==
    IF binop = NoneValue
    THEN BinaryOperation(left, operator, expression)
    ELSE BinaryOperation(binop, operator, expression)

\* `for operator, expression in zip(operator_and_expr[::2], operator_and_expr[1::2])`
RECURSIVE FoldPairs(_, _, _, _)
FoldPairs(binop, left, rest, i) ==
    IF 2 * i > Len(rest)
    THEN binop
    ELSE FoldPairs(FoldStep(binop, left, rest[2 * i - 1], rest[2 * i]), left, rest, i + 1)

BinaryOperation_from_lark(children) ==
    IF children = <<>> THEN Error("TypeError")
    ELSE IF Tail(children) = <<>> THEN Head(children)
    ELSE FoldPairs(NoneValue, Head(children), Tail(children), 1)

\* `args and isinstance(args[-1], ElseClause) or args[-1] is None`:
\* Python reads it as (args and isinstance(...)) or (args[-1] is None)
ElseTest(args) ==
    IF args # <<>> /\ Last(args)[1] = "ElseClause" THEN "yes"
    ELSE IF args = <<>> THEN "IndexError"
    ELSE IF Last(args) = NoneValue THEN "yes"
    ELSE "no"

IfStatement_from_lark(children) ==
    IF Len(children) < 2 THEN Error("TypeError")
    ELSE LET args == SubSeq(children, 3, Len(children))
             test == ElseTest(args)
         IN  CASE test = "IndexError" -> Error("IndexError")
               [] test = "yes" ->
                    <<"IfStatement", children[1], children[2], Front(args), Last(args)>>
               [] OTHER ->
                    <<"IfStatement", children[1], children[2], args, NoneValue>>

CaseStatement_from_lark(children) ==
    IF Len(children) < 1 THEN Error("TypeError")
    ELSE LET args == Tail(children)
             test == ElseTest(args)
         IN  CASE test = "IndexError" -> Error("IndexError")
               [] test = "yes" -> <<"CaseStatement", children[1], Front(args), Last(args)>>
               [] OTHER -> <<"CaseStatement", children[1], args, NoneValue>>

\* _get_default_instantiator: cls(*args) of a dataclass with these fields
ElseClause_from_lark(children) ==
    IF Len(children) # 1 THEN Error("TypeError")
    ELSE <<"ElseClause", children[1]>>

ElseIfClause_from_lark(children) ==
    IF Len(children) # 2 THEN Error("TypeError")
    ELSE <<"ElseIfClause", children[1], children[2]>>

_get_class_handlers(rule, children) ==
    CASE rule = "expression" -> BinaryOperation_from_lark(children)
      [] rule = "if_statement" -> IfStatement_from_lark(children)
      [] rule = "case_statement" -> CaseStatement_from_lark(children)
      [] rule = "else_clause" -> ElseClause_from_lark(children)
      [] rule = "else_if_clause" -> ElseIfClause_from_lark(children)

\* result.meta = meta, unless the result is a Tree, a Token or a list; None has
\* no attribute to set
_annotator_wrapper(rule, children) ==
    LET result == _get_class_handlers(rule, children)
    IN  IF result = NoneValue THEN Error("AttributeError") ELSE result

DefaultDropsChildren(data, children) == <<"Tree", data, <<>>>>

\* GrammarTransformer.__default__: lark.Tree(data, children, meta)
__default__(data, children) == <<"Tree", data, children>>

_call_userfunc(rule, children) ==
    IF rule \in HandlerRules
    THEN _annotator_wrapper(rule, children)
    ELSE __default__(rule, children)

NoCall == [rule |-> "", children |-> <<>>, result |-> NoneValue]

InitTransform ==
    /\ IdleMerge
    /\ IdleParse
    /\ IdleRender
    /\ IdleLex /\ IdleEngine /\ IdleAnnot /\ IdleRegistry /\ IdleDomain
    /\ tstack = <<>>
    /\ tleaves = 0
    /\ tcalls = 0
    /\ tlast = NoCall
    /\ tpc = "run"

\* the parse tree hands over a leaf: a token, or None for an absent optional
LarkLeaf ==
    /\ tpc = "run"
    /\ tleaves < MaxLeaves
    /\ \E leaf \in {Token(TokenText[tleaves + 1]), NoneValue} :
         tstack' = Append(tstack, leaf)
    /\ tleaves' = tleaves + 1
    /\ UNCHANGED <<tcalls, tlast, tpc, notTrans>>

\* Transformer._call_userfunc on a subtree with this rule and the last `arity`
\* values as its children
Call(rule) ==
    /\ tpc = "run"
    /\ tcalls < MaxCalls
    /\ \E arity \in 0..Len(tstack) :
         LET children == SubSeq(tstack, Len(tstack) - arity + 1, Len(tstack))
             result == _call_userfunc(rule, children)
         IN  /\ tlast' = [rule |-> rule, children |-> children, result |-> result]
             /\ IF IsError(result)
                THEN /\ tpc' = "error"
                     /\ tstack' = tstack
                ELSE /\ tpc' = "run"
                     /\ tstack' = Append(SubSeq(tstack, 1, Len(tstack) - arity), result)
    /\ tcalls' = tcalls + 1
    /\ UNCHANGED <<tleaves, notTrans>>

\* `except AttributeError: return self.__default__(tree.data, children, tree.meta)`
CallDefault ==
    /\ tpc = "run"
    /\ \E rule \in UnhandledRules : Call(rule)

CallBinaryOperation ==
    /\ tpc = "run"
    /\ Call("expression")

CallIfStatement ==
    /\ tpc = "run"
    /\ Call("if_statement")

CallCaseStatement ==
    /\ tpc = "run"
    /\ Call("case_statement")

CallElseClause ==
    /\ tpc = "run"
    /\ Call("else_clause")

CallElseIfClause ==
    /\ tpc = "run"
    /\ Call("else_if_clause")

NextTransform ==
    \/ LarkLeaf
    \/ CallDefault
    \/ CallBinaryOperation
    \/ CallIfStatement
    \/ CallCaseStatement
    \/ CallElseClause
    \/ CallElseIfClause

SpecTransform == InitTransform /\ [][NextTransform]_vars

(***************************************************************************)
(* Rendering (__str__) of the values above, as a sequence of text pieces   *)
(***************************************************************************)
INDENT == "    "

RECURSIVE Concat(_)
Concat(texts) == IF texts = <<>> THEN <<>> ELSE Head(texts) \o Concat(Tail(texts))

\* delimiter.join(texts)
RECURSIVE Join(_, _)
Join(delimiter, texts) ==
    IF texts = <<>> THEN <<>>
    ELSE IF Len(texts) = 1 THEN texts[1]
    ELSE texts[1] \o <<delimiter>> \o Join(delimiter, Tail(texts))

\* textwrap.indent(text, prefix): the prefix before every line that is not empty
RECURSIVE IndentFrom(_, _, _)
IndentFrom(text, prefix, atLineStart) ==
    IF text = <<>> THEN <<>>
    ELSE IF Head(text) = "\n" THEN <<"\n">> \o IndentFrom(Tail(text), prefix, TRUE)
    ELSE IF atLineStart THEN <<prefix, Head(text)>> \o IndentFrom(Tail(text), prefix, FALSE)
    ELSE <<Head(text)>> \o IndentFrom(Tail(text), prefix, FALSE)

RECURSIVE Str(_)
RECURSIVE Repr(_)

(***************************************************************************)
(* Literals  (transform.py 96-276)                                         *)
(*                                                                         *)
(* An Integer is <<"Integer", base, value, type>>: base stands for the     *)
(* class (_base_to_integer_class), value is the digits token, type a token *)
(* or None.  A Duration is <<"Duration", days, hours, minutes, seconds,    *)
(* milliseconds>>, each a token or None.                                   *)
(***************************************************************************)
IntegerBases == {2, 8, 10, 16}

Integer_from_lark(type_name, value, base) ==
    IF value[1] = "Integer"
    THEN <<"Integer", value[2], value[3], type_name>>
    ELSE <<"Integer", base, value, type_name>>

\* BinaryInteger / OctalInteger / HexInteger.from_lark
BasedInteger_from_lark(value, base) == Integer_from_lark(NoneValue, value, base)

Integer_str_AlwaysBase(self) ==
    (IF self[4] # NoneValue THEN Str(self[4]) \o <<"#">> ELSE <<>>)
        \o <<ToString(self[2]), "#">> \o Str(self[3])

Integer_str(self) ==
    LET value == IF self[2] # 10
                 THEN <<ToString(self[2]), "#">> \o Str(self[3])
                 ELSE Str(self[3])
    IN  IF self[4] # NoneValue THEN Str(self[4]) \o <<"#">> \o value ELSE value

DurationUnits == <<"days", "hours", "minutes", "seconds", "milliseconds">>

DurationSuffix == <<"D", "H", "M", "S", "MS">>

\* `{tree.data: tree.children[0] for tree in interval.iter_subtrees()}`
Duration_from_lark(interval) ==
    <<"Duration">> \o
    [k \in 1..5 |->
        IF \E i \in 1..Len(interval) : interval[i][2] = DurationUnits[k]
        THEN LET i == CHOOSE i \in 1..Len(interval) :
                        /\ interval[i][2] = DurationUnits[k]
                        /\ \A j \in (i + 1)..Len(interval) : interval[j][2] # DurationUnits[k]
             IN  interval[i][3][1]
        ELSE NoneValue]

Duration_value_NoSkip(self) ==
    Concat([k \in 1..5 |-> Str(self[k + 1]) \o <<DurationSuffix[k]>>])

\* the `value` property
Duration_value(self) ==
    Concat([k \in 1..5 |->
              IF self[k + 1] # NoneValue
              THEN Str(self[k + 1]) \o <<DurationSuffix[k]>>
              ELSE <<>>])

Duration_str(self) == <<"TIME#">> \o Duration_value(self)

(***************************************************************************)
(* Direct variables and locations  (transform.py 458-517)                  *)
(*                                                                         *)
(* A member of VariableLocationPrefix / VariableSizePrefix, classes that   *)
(* mix str into Enum, is <<"StrEnum", name, value>>.  An f-string formats  *)
(* such a member with format(): the mixed-in str value ("I") on Python up  *)
(* to 3.10, Enum.__str__ ("VariableLocationPrefix.input") from Python 3.11 *)
(* on.  The interpreter is an input (enumFormat).                          *)
(***************************************************************************)
VariableLocationPrefix(value) ==
    CASE value = "I" -> <<"StrEnum", "VariableLocationPrefix.input", "I">>
      [] value = "Q" -> <<"StrEnum", "VariableLocationPrefix.output", "Q">>
      [] value = "M" -> <<"StrEnum", "VariableLocationPrefix.memory", "M">>
      [] OTHER -> Error("ValueError")

VariableSizePrefix(value) ==
    CASE value = "X" -> <<"StrEnum", "VariableSizePrefix.bit", "X">>
      [] value = "B" -> <<"StrEnum", "VariableSizePrefix.byte", "B">>
      [] value = "W" -> <<"StrEnum", "VariableSizePrefix.word_16", "W">>
      [] value = "D" -> <<"StrEnum", "VariableSizePrefix.dword_32", "D">>
      [] value = "L" -> <<"StrEnum", "VariableSizePrefix.lword_64", "L">>
      [] OTHER -> Error("ValueError")

EnumFormats == {"value", "name"}

FormatStrEnum(member, enumFormat) ==
    IF enumFormat = "value" THEN <<member[3]>> ELSE <<member[2]>>

DirectVariable_from_lark(location_prefix, size_prefix, location, bits) ==
    <<"DirectVariable",
      VariableLocationPrefix(location_prefix[2]),
      location,
      IF size_prefix # NoneValue THEN VariableSizePrefix(size_prefix[2])
                                 ELSE VariableSizePrefix("X"),
      IF bits # <<>> THEN bits ELSE NoneValue>>

Location_from_lark(var) == <<"Location", var[2], var[3], var[4], var[5]>>

DirectVariable_str(self, enumFormat) ==
    LET bits == IF self[5] # NoneValue /\ self[5] # <<>>
                THEN Join(".", <<<<>>>> \o [i \in 1..Len(self[5]) |-> Str(self[5][i])])
                ELSE <<>>
    IN  <<"%">> \o FormatStrEnum(self[2], enumFormat) \o FormatStrEnum(self[4], enumFormat)
            \o Str(self[3]) \o bits

Location_str(self, enumFormat) == <<"AT ">> \o DirectVariable_str(self, enumFormat)

indent_if_NoIndent(value) ==
    IF value = NoneValue THEN <<>> ELSE <<Str(value)>>

\* indent_if(value): the lines it adds to a "\n".join, none when value is None
indent_if(value) ==
    IF value = NoneValue THEN <<>> ELSE <<IndentFrom(Str(value), INDENT, TRUE)>>

(***************************************************************************)
(* Helpers of the renderers  (transform.py 26-57)                          *)
(*                                                                         *)
(* An optional piece of text is a sequence of no or one text, as indent_if *)
(* gives it.  A node with comments attached by merge_comments is           *)
(* <<"Commented", comments, node>>; only comment consumers are wrapped.    *)
(***************************************************************************)
\* `str(value) ... if value is not None`
Opt(value) == IF value = NoneValue THEN <<>> ELSE <<Str(value)>>

join_if_Truthy(value1, delimiter, value2) ==
    Join(delimiter, SelectSeq(value1 \o value2, LAMBDA text : text # <<>>))

\* join_if: delimiter.join(str(value) for value in (value1, value2) if value is not None)
join_if(value1, delimiter, value2) == Join(delimiter, value1 \o value2)

_commented_Dropped(meta_comments, text) == text

\* _commented with indent "" and suffix "", as _commented_block calls it
_commented(meta_comments, text) ==
    IF meta_comments = <<>> THEN text
    ELSE Join("\n", [i \in 1..Len(meta_comments) |-> <<meta_comments[i]>>] \o <<text>>)

(***************************************************************************)
(* Types and declarations  (transform.py 415-456, 595-604, 1107-1139,      *)
(* 1625-1647)                                                              *)
(***************************************************************************)
IndirectionType_from_lark(token) ==
    LET text == IF token = NoneValue THEN "NONE" ELSE token[2]
    IN  CASE text = "NONE" -> <<"IndirectionType", "none">>
          [] text = "POINTER TO" -> <<"IndirectionType", "pointer">>
          [] text = "REFERENCE TO" -> <<"IndirectionType", "reference">>
          [] OTHER -> Error("KeyError")

IndirectionType_str(self) ==
    CASE self[2] = "none" -> <<>>
      [] self[2] = "pointer" -> <<"POINTER TO">>
      [] self[2] = "reference" -> <<"REFERENCE TO">>

IncompleteLocation_str(self) ==
    IF self[2] = "none" THEN <<>> ELSE <<"AT ", self[3]>>

TypeInitialization_str(self) ==
    LET type_ == join_if(Opt(self[2]), " ", Opt(self[3]))
    IN  join_if(<<type_>>, " := ", Opt(self[4]))

VariableOne_str(self) == join_if(Opt(self[2]), " ", Opt(self[3]))

VariableList_str(self) ==
    Join(", ", [i \in 1..Len(self[2]) |-> Str(self[2][i])])

VariableOneInitDeclaration_str(self) == Str(self[2]) \o <<" : ">> \o Str(self[3])

VariableDeclarations_from_lark(config, items) == <<"VariableDeclarations", config, items[3]>>

VariableDeclarations_str(self) ==
    Join("\n", <<join_if(<<<<"VAR">>>>, " ", Opt(self[2]))>>
                 \o [i \in 1..Len(self[3]) |->
                       IndentFrom(Str(self[3][i]) \o <<";">>, INDENT, TRUE)]
                 \o <<<<"END_VAR">>>>)

(***************************************************************************)
(* Statements  (transform.py 1958, 2104-2274)                              *)
(***************************************************************************)
StatementClasses ==
    {"IfStatement", "CaseStatement", "NoOpStatement", "SetStatement",
     "ReferenceAssignmentStatement", "ResetStatement", "ExitStatement",
     "ReturnStatement", "AssignmentStatement", "MethodStatement"}

\* the class of a node, whether or not comments are attached to it
ClassOf(v) == IF v[1] = "Commented" THEN v[3][1] ELSE v[1]

AssignmentStatement_from_lark(args) ==
    IF args = <<>> THEN Error("ValueError")
    ELSE <<"AssignmentStatement", Front(args), Last(args)>>

AssignmentStatement_str(self) ==
    Join(" := ", [i \in 1..Len(self[2]) |-> Str(self[2][i])])
        \o <<" := ">> \o Str(self[3]) \o <<";">>

FunctionBlockInvocation_str(self) ==
    Str(self[2]) \o <<"(">>
        \o Join(", ", [i \in 1..Len(self[3]) |-> Str(self[3][i])]) \o <<")">>

stringify_statement_Always(statement) == Str(statement) \o <<";">>

\* stringify_statement of StatementList.__str__
stringify_statement(statement) ==
    IF ClassOf(statement) \notin StatementClasses
    THEN Str(statement) \o <<";">>
    ELSE Str(statement)

StatementList_from_lark(statements) == <<"StatementList", statements>>

StatementList_str(self) ==
    Join("\n", [i \in 1..Len(self[2]) |-> stringify_statement(self[2][i])])

\* StringTypeInitialization.from_lark: two children, or four with ':=' and a value
StringTypeInitialization_from_lark(args) ==
    IF Len(args) = 4 THEN <<"StringTypeInitialization", args[1], args[2], args[4]>>
    ELSE <<"StringTypeInitialization", args[1], args[2], NoneValue>>

StringTypeInitialization_str(self) ==
    join_if(<<join_if(Opt(self[2]), "", Opt(self[3]))>>, " := ", Opt(self[4]))

StringVariableInitDeclaration_from_lark(variables, string_info) ==
    <<"StringVariableInitDeclaration", variables, string_info[2], string_info[3],
      string_info[4]>>

StringVariableInitDeclaration_str(self) ==
    Str(self[2]) \o <<" : ">> \o join_if(Opt(self[3]), "", Opt(self[4]))
        \o <<" := ">> \o Str(self[5])

(***************************************************************************)
(* Program organization units  (transform.py 1369-1593)                    *)
(***************************************************************************)
MethodAccess_str(self) == Join(" ", [i \in 1..Len(self[2]) |-> <<self[2][i]>>])

FunctionBlock_from_lark(abstract, derived_name, extends, args) ==
    IF args = <<>> THEN Error("ValueError")
    ELSE <<"FunctionBlock", derived_name, abstract # NoneValue, extends,
           Front(args), Last(args)>>

DeclarationsIndented(declarations) ==
    [i \in 1..Len(declarations) |-> IndentFrom(Str(declarations[i]), INDENT, TRUE)]

\* `*[str(declaration) for declaration in self.declarations]`
DeclarationsAsIs(declarations) ==
    [i \in 1..Len(declarations) |-> Str(declarations[i])]

FunctionBlock_str(self) ==
    LET abstract == IF self[3] THEN <<"ABSTRACT", " ">> ELSE <<>>
    IN  Join("\n", <<join_if(<<<<"FUNCTION_BLOCK", " ">> \o abstract \o Str(self[2])>>,
                             " ", Opt(self[4]))>>
                     \o DeclarationsAsIs(self[5])
                     \o indent_if(self[6])
                     \o <<<<"END_FUNCTION_BLOCK">>>>)

\* `declarations.children if declarations else []`
ChildrenOrEmpty(declarations) ==
    IF declarations = NoneValue \/ declarations[3] = <<>> THEN <<>> ELSE declarations[3]

Function_from_lark(name, return_type, declarations, body) ==
    <<"Function", name, return_type, ChildrenOrEmpty(declarations), body>>

Function_str(self) ==
    Join("\n", <<<<"FUNCTION", " ">> \o Str(self[2]) \o <<" : ">> \o Str(self[3])>>
                 \o DeclarationsIndented(self[4])
                 \o indent_if(self[5])
                 \o <<<<"END_FUNCTION">>>>)

Program_from_lark(name, declarations, body) ==
    <<"Program", name, ChildrenOrEmpty(declarations), body>>

Program_str(self) ==
    Join("\n", <<<<"PROGRAM", " ">> \o Str(self[2])>>
                 \o DeclarationsIndented(self[3])
                 \o indent_if(self[4])
                 \o <<<<"END_PROGRAM">>>>)

Method_from_lark(access, name, return_type, args) ==
    IF args = <<>> THEN Error("ValueError")
    ELSE <<"Method", access, name, return_type, Front(args), Last(args)>>

Method_str(self) ==
    LET access_and_name == join_if(Opt(self[2]), " ", Opt(self[3]))
        method == join_if(<<access_and_name>>, " : ", Opt(self[4]))
    IN  Join("\n", <<<<"METHOD", " ">> \o method>>
                     \o DeclarationsIndented(self[5])
                     \o indent_if(self[6])
                     \o <<<<"END_METHOD">>>>)

\* repr of a list of values
ReprList(values) ==
    <<"[">> \o Join(", ", [i \in 1..Len(values) |-> Repr(values[i])]) \o <<"]">>

Repr(v) ==
    CASE v[1] = "None" -> <<"None">>
      [] v[1] = "Token" -> <<"Token(", v[2], ")">>
      [] v[1] = "Tree" -> <<"Tree(", v[2], ", ">> \o ReprList(v[3]) \o <<")">>
      [] v[1] = "BinaryOperation" ->
           <<"BinaryOperation(left=">> \o Repr(v[2]) \o <<", op=">> \o Repr(v[3])
               \o <<", right=">> \o Repr(v[4]) \o <<")">>
      [] v[1] = "ElseClause" -> <<"ElseClause(statements=">> \o Repr(v[2]) \o <<")">>
      [] v[1] = "ElseIfClause" ->
           <<"ElseIfClause(if_expression=">> \o Repr(v[2]) \o <<", statements=">>
               \o Repr(v[3]) \o <<")">>
      [] v[1] = "IfStatement" ->
           <<"IfStatement(if_expression=">> \o Repr(v[2]) \o <<", statements=">>
               \o Repr(v[3]) \o <<", else_ifs=">> \o ReprList(v[4])
               \o <<", else_clause=">> \o Repr(v[5]) \o <<")">>
      [] v[1] = "CaseStatement" ->
           <<"CaseStatement(expression=">> \o Repr(v[2]) \o <<", cases=">>
               \o ReprList(v[3]) \o <<", else_clause=">> \o Repr(v[4]) \o <<")">>

Str(v) ==
    CASE v[1] = "None" -> <<"None">>
      [] v[1] = "Token" -> <<v[2]>>
      [] v[1] = "Tree" -> Repr(v)
      [] v[1] = "BinaryOperation" ->
           Str(v[2]) \o <<" ">> \o Str(v[3]) \o <<" ">> \o Str(v[4])
      [] v[1] = "Integer" -> Integer_str(v)
      [] v[1] = "Duration" -> Duration_str(v)
      [] v[1] = "Commented" -> _commented(v[2], Str(v[3]))
      [] v[1] = "IndirectionType" -> IndirectionType_str(v)
      [] v[1] = "IncompleteLocation" -> IncompleteLocation_str(v)
      [] v[1] = "TypeInitialization" -> TypeInitialization_str(v)
      [] v[1] = "VariableOne" -> VariableOne_str(v)
      [] v[1] = "VariableList" -> VariableList_str(v)
      [] v[1] = "VariableOneInitDeclaration" -> VariableOneInitDeclaration_str(v)
      [] v[1] = "StringTypeInitialization" -> StringTypeInitialization_str(v)
      [] v[1] = "StringVariableInitDeclaration" -> StringVariableInitDeclaration_str(v)
      [] v[1] = "VariableDeclarations" -> VariableDeclarations_str(v)
      [] v[1] = "NoOpStatement" -> Str(v[2]) \o <<";">>
      [] v[1] = "SetStatement" -> Str(v[2]) \o <<" S= ">> \o Str(v[3]) \o <<";">>
      [] v[1] = "ReferenceAssignmentStatement" ->
           Str(v[2]) \o <<" REF= ">> \o Str(v[3]) \o <<";">>
      [] v[1] = "ResetStatement" -> Str(v[2]) \o <<" R= ">> \o Str(v[3]) \o <<";">>
      [] v[1] = "ExitStatement" -> <<"EXIT", ";">>
      [] v[1] = "ReturnStatement" -> <<"RETURN", ";">>
      [] v[1] = "AssignmentStatement" -> AssignmentStatement_str(v)
      [] v[1] = "MethodStatement" -> Str(v[2]) \o <<"()", ";">>
      [] v[1] = "FunctionBlockInvocation" -> FunctionBlockInvocation_str(v)
      [] v[1] = "StatementList" -> StatementList_str(v)
      [] v[1] = "FunctionBlockBody" -> Str(v[2])
      [] v[1] = "Extends" -> <<"EXTENDS", " ">> \o Str(v[2])
      [] v[1] = "MethodAccess" -> MethodAccess_str(v)
      [] v[1] = "FunctionBlock" -> FunctionBlock_str(v)
      [] v[1] = "Function" -> Function_str(v)
      [] v[1] = "Program" -> Program_str(v)
      [] v[1] = "Method" -> Method_str(v)
      [] v[1] = "ElseClause" ->
           Join("\n", <<<<"ELSE">>>> \o indent_if(v[2]))
      [] v[1] = "ElseIfClause" ->
           Join("\n", <<<<"ELSIF ">> \o Str(v[2]) \o <<" THEN">>>> \o indent_if(v[3]))
      [] v[1] = "IfStatement" ->
           Join("\n", <<<<"IF ">> \o Str(v[2]) \o <<" THEN">>>>
                          \o indent_if(v[3])
                          \o [i \in 1..Len(v[4]) |-> Str(v[4][i])]
                          \o (IF v[5] = NoneValue THEN <<>> ELSE <<Str(v[5])>>)
                          \o <<<<"END_IF">>>>)
      [] v[1] = "CaseStatement" ->
           Join("\n", <<<<"CASE ">> \o Str(v[2]) \o <<" OF">>>>
                          \o [i \in 1..Len(v[3]) |-> Str(v[3][i])]
                          \o (IF v[4] = NoneValue THEN <<>> ELSE <<Str(v[4])>>)
                          \o <<<<"END_CASE">>>>)

(***************************************************************************)
(* The parsing engine, for the expression fragment: parse(text) gives a    *)
(* generic tree or a syntax error.  White space separates tokens; a piece  *)
(* that is no token of the language, or a chain that does not alternate    *)
(* operands and operators, is a syntax error.                              *)
(***************************************************************************)
SourceTokens == {TokenText[i] : i \in 1..Len(TokenText)}

Parse(text) ==
    LET toks == SelectSeq(text, LAMBDA piece : piece \notin {" ", "\n", INDENT})
    IN  IF \/ \E i \in 1..Len(toks) : toks[i] \notin SourceTokens
           \/ Len(toks) % 2 = 0
        THEN Error("SyntaxError")
        ELSE <<"Tree", "expression", [i \in 1..Len(toks) |-> Token(toks[i])]>>

\* lark.visitors.Transformer.transform: children first, then _call_userfunc
RECURSIVE Transform(_)
Transform(tree) ==
    IF tree[1] # "Tree" THEN tree
    ELSE LET kids == [i \in 1..Len(tree[3]) |-> Transform(tree[3][i])]
         IN  IF \E i \in 1..Len(kids) : IsError(kids[i])
             THEN Error("VisitError")
             ELSE _call_userfunc(tree[2], kids)

(***************************************************************************)
(* Properties of the transformer and its handlers                          *)
(***************************************************************************)
\* an AST of the expression fragment as valid source gives it: tokens, chains
\* of them, and subtrees of rules nothing handles
RECURSIVE FromValidSource(_)
FromValidSource(v) ==
    CASE v[1] = "Token" -> TRUE
      [] v[1] = "BinaryOperation" ->
           FromValidSource(v[2]) /\ v[3][1] = "Token" /\ FromValidSource(v[4])
      [] v[1] = "Tree" ->
           v[3] # <<>> /\ \A i \in 1..Len(v[3]) : FromValidSource(v[3][i])
      [] OTHER -> FALSE

RoundTrip(v) ==
    LET text == Str(v)
        tree == Parse(text)
    IN  /\ ~IsError(tree)
        /\ ~IsError(Transform(tree))
        /\ Str(Transform(tree)) = text

\* C1: rendering an AST built from valid source, parsing and transforming the
\* rendered text again and rendering that gives the first rendering back.
C1_RoundTripFixedPoint ==
    (tlast.rule # "" /\ ~IsError(tlast.result) /\ FromValidSource(tlast.result))
        => RoundTrip(tlast.result)

\* walking n times down the left child: each right child is the operand of
\* its pair, each operator the operator of its pair, and the innermost left
\* child is the left operand
RECURSIVE LeftSpine(_, _, _)
LeftSpine(v, children, n) ==
    IF n = 0 THEN v = children[1]
    ELSE /\ v[1] = "BinaryOperation"
         /\ Len(v) = 4
         /\ v[4] = children[2 * n + 1]
         /\ v[3] = children[2 * n]
         /\ LeftSpine(v[2], children, n - 1)

\* C2: BinaryOperation.from_lark folds a left operand and n >= 1 (operator,
\* operand) pairs into a left-nested chain whose right children are the
\* operands themselves, and the chain renders as the operands and operators
\* in input order with single spaces between them.
C2_LeftNestedFold ==
    (/\ tlast.rule = "expression"
     /\ Len(tlast.children) >= 3
     /\ Len(tlast.children) % 2 = 1)
    => /\ ~IsError(tlast.result)
       /\ LeftSpine(tlast.result, tlast.children, (Len(tlast.children) - 1) \div 2)
       /\ Str(tlast.result) =
             Join(" ", [i \in 1..Len(tlast.children) |-> Str(tlast.children[i])])

C2_Witness ==
    /\ tlast.rule = "expression"
    /\ Len(tlast.children) = 5
    /\ \A i \in 1..5 : tlast.children[i][1] = "Token"
    /\ tlast.result[1] = "BinaryOperation"
    /\ tlast.result[2][1] = "BinaryOperation"
    /\ Str(tlast.result) = <<"a", " ", "+", " ", "b", " ", "-", " ", "c">>

\* C9: IfStatement.from_lark and CaseStatement.from_lark called without
\* trailing arguments return a node with no else clause and an empty else_ifs /
\* cases list; with trailing arguments the else clause is present iff the last
\* of them is an ElseClause.
C9_ElseClauseOnlyWhenPresent ==
    /\ (tlast.rule = "if_statement" /\ Len(tlast.children) >= 2) =>
          LET args == SubSeq(tlast.children, 3, Len(tlast.children))
          IN  IF args = <<>>
              THEN tlast.result =
                     <<"IfStatement", tlast.children[1], tlast.children[2], <<>>, NoneValue>>
              ELSE /\ tlast.result[1] = "IfStatement"
                   /\ tlast.result[5] # NoneValue <=> Last(args)[1] = "ElseClause"
    /\ (tlast.rule = "case_statement" /\ Len(tlast.children) >= 1) =>
          LET args == Tail(tlast.children)
          IN  IF args = <<>>
              THEN tlast.result = <<"CaseStatement", tlast.children[1], <<>>, NoneValue>>
              ELSE /\ tlast.result[1] = "CaseStatement"
                   /\ tlast.result[4] # NoneValue <=> Last(args)[1] = "ElseClause"

\* C10: a subtree whose rule has no handler becomes a generic tree with the
\* same rule name and the transformed children in order; no error is raised
\* and the transformation goes on.
C10_UnhandledRuleFallsBack ==
    tlast.rule \in UnhandledRules =>
       /\ tlast.result = <<"Tree", tlast.rule, tlast.children>>
       /\ tpc = "run"

C10_Witness ==
    /\ tlast.rule \in HandlerRules
    /\ tpc = "run"
    /\ tlast.result[1] = "BinaryOperation"
    /\ \E i \in 1..Len(tlast.children) :
         /\ tlast.children[i][1] = "Tree"
         /\ tlast.children[i][2] \in UnhandledRules
         /\ Len(tlast.children[i][3]) = 2

(***************************************************************************)
(* Properties of parse_project and main                                    *)
(***************************************************************************)
Parseable(q) == {j \in ItemsOf(q) : input.items[j].status \in {"ok", "raises"}}

DistinctNames(q) ==
    \A i, j \in ItemsOf(q) : i # j => input.items[i].name # input.items[j].name

\* C7: for a project whose items have distinct names, parse_project parses
\* every item that has source code, maps each such name to its tree or to the
\* exception it raised (carrying the item's filename), and returns success
\* true iff no item raised.
C7_FailuresIsolatedPerItem ==
    \A q \in 1..Len(returned) :
       DistinctNames(q) =>
          /\ Parseable(q) \subseteq parsed
          /\ DOMAIN returned[q].results = {input.items[j].name : j \in Parseable(q)}
          /\ \A j \in Parseable(q) :
                returned[q].results[input.items[j].name] =
                   IF input.items[j].status = "raises"
                   THEN [type |-> "Exception", src |-> j, filename |-> <<j>>]
                   ELSE [type |-> "Tree", src |-> j, filename |-> <<>>]
          /\ returned[q].success <=>
                (\A j \in Parseable(q) : input.items[j].status # "raises")

C7_Witness ==
    /\ Len(returned) >= 1
    /\ DistinctNames(1)
    /\ Cardinality(ItemsOf(1)) = 3
    /\ input.items[1].status = "ok"
    /\ input.items[2].status = "raises"
    /\ input.items[3].status = "ok"
    /\ ~returned[1].success

\* C8: with failure reporting on (debug false), every item whose parse raised,
\* in any project or as a single source file, is listed in the failure report
\* with its name and its error.
C8_EveryFailureReported ==
    (pc = "done" /\ ~input.debug) =>
       \A src \in raised :
          /\ Len(report) = 1
          /\ \E line \in report[1].failures :
                /\ line.error = src
                /\ src # 0 => line.name = input.items[src].name

\* C28: parse_project returns success = false exactly when the results it
\* returns hold at least one exception, for every sequence of items, items
\* of different kinds sharing a name included.
C28_SuccessIffNoException ==
    \A r \in 1..Len(returned) :
       ~returned[r].success
          <=> \E name \in DOMAIN returned[r].results :
                 returned[r].results[name].type = "Exception"

(***************************************************************************)
(* Handlers given children they cannot decompose                           *)
(***************************************************************************)
\* the child lists a handler cannot decompose: a chain that ends on an
\* operator, an IF without condition or body, a CASE without expression
Malformed(rule, children) ==
    \/ rule = "expression" /\ Len(children) % 2 = 0
    \/ rule = "if_statement" /\ Len(children) < 2
    \/ rule = "case_statement" /\ Len(children) < 1

\* C11: a registered handler that receives children it cannot decompose fails
\* with a ConstructionError; it never builds a node from the malformed list
\* and never fails in another way.
C11_MalformedChildrenRaiseConstructionError ==
    (tlast.rule \in HandlerRules /\ Malformed(tlast.rule, tlast.children))
        => tlast.result = Error("ConstructionError")

(***************************************************************************)
(* SpecRender: one handler call (from_lark) on the children the grammar    *)
(* hands over, then str() of the node it built.  rin.kind is the rule.     *)
(***************************************************************************)
DurationValues == <<"1", "2", "3", "30", "5">>

\* the subtrees of a duration interval, innermost (smallest unit) first
RECURSIVE IntervalOf(_, _)
IntervalOf(present, k) ==
    IF k = 0 THEN <<>>
    ELSE (IF k \in present
          THEN <<<<"Tree", DurationUnits[k], <<Token(DurationValues[k])>>>>>>
          ELSE <<>>) \o IntervalOf(present, k - 1)

InitRenderInteger ==
    \E base \in IntegerBases, digits \in {"42", "2A"}, type \in {NoneValue, Token("INT")} :
       rin = [kind |-> "integer_literal", base |-> base, digits |-> digits, type |-> type]

InitRenderDuration ==
    \E present \in SUBSET (1..5) :
       rin = [kind |-> "duration", present |-> present,
              interval |-> IntervalOf(present, 5)]

\* binary_integer, octal_integer, hex_integer
IntegerBased ==
    /\ rpc = "lex"
    /\ rin.kind = "integer_literal"
    /\ rin.base # 10
    /\ rnode' = BasedInteger_from_lark(Token(rin.digits), rin.base)
    /\ rpc' = "based"
    /\ UNCHANGED <<rin, rtext, notRender>>

\* integer_literal: an optional type name and a digits token or a based integer
IntegerLiteral ==
    /\ rin.kind = "integer_literal"
    /\ \/ rpc = "based"
       \/ rpc = "lex" /\ rin.base = 10
    /\ rnode' = Integer_from_lark(rin.type,
                                  IF rpc = "based" THEN rnode ELSE Token(rin.digits), 10)
    /\ rpc' = "built"
    /\ UNCHANGED <<rin, rtext, notRender>>

DurationFromLark ==
    /\ rpc = "lex"
    /\ rin.kind = "duration"
    /\ rnode' = Duration_from_lark(rin.interval)
    /\ rpc' = "built"
    /\ UNCHANGED <<rin, rtext, notRender>>

(***************************************************************************)
(* Properties of the literals                                              *)
(***************************************************************************)
\* C12: an Integer renders as [TYPE#][base#]value, the base segment present
\* iff the base is not 10 and the type segment iff a type was given; a type
\* name given with an already built based Integer keeps its base.
C12_IntegerRendering ==
    (rin.kind = "integer_literal" /\ rpc \in {"built", "done"}) =>
       /\ rnode = <<"Integer", rin.base, Token(rin.digits), rin.type>>
       /\ rpc = "done" =>
             rtext = (IF rin.type # NoneValue THEN <<rin.type[2], "#">> ELSE <<>>)
                     \o (IF rin.base # 10 THEN <<ToString(rin.base), "#">> ELSE <<>>)
                     \o <<rin.digits>>

C12_Witness ==
    /\ rin.kind = "integer_literal"
    /\ rpc = "done"
    /\ rin.base = 16
    /\ rtext = <<"INT", "#", "16", "#", "2A">>

RECURSIVE DurationText(_, _)
DurationText(present, k) ==
    IF k > 5 THEN <<>>
    ELSE (IF k \in present THEN <<DurationValues[k], DurationSuffix[k]>> ELSE <<>>)
            \o DurationText(present, k + 1)

\* C13: a Duration renders as TIME# followed by value and suffix of exactly
\* the fields that are present, in the order D, H, M, S, MS.
C13_DurationRendering ==
    (rin.kind = "duration" /\ rpc = "done") =>
       rtext = <<"TIME#">> \o DurationText(rin.present, 1)

C13_Witness ==
    /\ rin.kind = "duration"
    /\ rpc = "done"
    /\ rin.present = {1, 2}
    /\ rtext = <<"TIME#", "1", "D", "2", "H">>

(***************************************************************************)
(* Direct variables                                                        *)
(***************************************************************************)
MaxBits == 2

BitTokens == {Token("0"), Token("7")}

InitRenderDirectVariable ==
    \E lp \in {"I", "Q", "M"}, sp \in {NoneValue} \cup {Token(x) : x \in {"X", "B", "W", "D", "L"}},
       n \in 0..MaxBits, enumFormat \in EnumFormats :
       \E bits \in [1..n -> BitTokens] :
          rin = [kind |-> "direct_variable", location_prefix |-> Token(lp),
                 size_prefix |-> sp, location |-> Token("1"), bits |-> bits,
                 enumFormat |-> enumFormat]

DirectVariableFromLark ==
    /\ rpc = "lex"
    /\ rin.kind = "direct_variable"
    /\ rnode' = DirectVariable_from_lark(rin.location_prefix, rin.size_prefix,
                                         rin.location, rin.bits)
    /\ rpc' = "built"
    /\ UNCHANGED <<rin, rtext, notRender>>

\* the location rule wraps the direct variable it is given
LocationFromLark ==
    /\ rpc = "built"
    /\ rnode[1] = "DirectVariable"
    /\ rnode' = Location_from_lark(rnode)
    /\ UNCHANGED <<rin, rtext, rpc, notRender>>

RenderDirectVariable ==
    /\ rpc = "built"
    /\ rnode[1] \in {"DirectVariable", "Location"}
    /\ rtext' = IF rnode[1] = "Location"
                THEN Location_str(rnode, rin.enumFormat)
                ELSE DirectVariable_str(rnode, rin.enumFormat)
    /\ rpc' = "done"
    /\ UNCHANGED <<rin, rnode, notRender>>

RECURSIVE BitsText(_)
BitsText(bits) ==
    IF bits = <<>> THEN <<>> ELSE <<".", Head(bits)[2]>> \o BitsText(Tail(bits))

\* C14: a DirectVariable renders as % + location prefix + size prefix +
\* location, then .bit for each bit in order; without a size prefix from the
\* grammar the node stores X; a Location built from it keeps the four fields
\* and renders the same text after 'AT '.
C14_DirectVariableRendering ==
    (rin.kind = "direct_variable" /\ rpc \in {"built", "done"}) =>
       LET size == IF rin.size_prefix = NoneValue THEN "X" ELSE rin.size_prefix[2]
       IN  /\ rnode[2][3] = rin.location_prefix[2]
           /\ rnode[3] = rin.location
           /\ rnode[4][3] = size
           /\ rnode[5] = IF rin.bits = <<>> THEN NoneValue ELSE rin.bits
           /\ rpc = "done" =>
                 rtext = (IF rnode[1] = "Location" THEN <<"AT ">> ELSE <<>>)
                         \o <<"%", rin.location_prefix[2], size, rin.location[2]>>
                         \o BitsText(rin.bits)

(***************************************************************************)
(* Statements and statement lists                                          *)
(***************************************************************************)
MaxStatements == 2

CommentLists == {<<>>, <<"// c1">>, <<"// c1", "(* c2 *)">>}

\* the elements a statement_list subtree hands to StatementList.from_lark
RenderStatements ==
    {<<"AssignmentStatement", <<Token("a")>>, Token("b")>>,
     <<"AssignmentStatement", <<Token("a"), Token("c")>>, Token("b")>>,
     <<"SetStatement", Token("a"), Token("b")>>,
     <<"ResetStatement", Token("a"), Token("b")>>,
     <<"ReferenceAssignmentStatement", Token("a"), Token("b")>>,
     <<"MethodStatement", Token("a")>>,
     <<"NoOpStatement", Token("a")>>,
     <<"ExitStatement">>,
     <<"ReturnStatement">>,
     <<"FunctionBlockInvocation", Token("a"), <<>>>>,
     <<"FunctionBlockInvocation", Token("a"), <<Token("b"), Token("c")>>>>,
     <<"Commented", <<"// c1", "(* c2 *)">>, <<"SetStatement", Token("a"), Token("b")>>>>}

StatementSeqs == UNION {[1..n -> RenderStatements] : n \in 0..MaxStatements}

RenderStatementLists == {StatementList_from_lark(seq) : seq \in StatementSeqs}

InitRenderIf ==
    \E then \in {NoneValue} \cup RenderStatementLists,
       args \in {<<>>, <<NoneValue>>,
                 <<ElseClause_from_lark(<<Token("c")>>)>>,
                 <<ElseIfClause_from_lark(<<Token("b"), Token("c")>>), NoneValue>>} :
       rin = [kind |-> "if_statement", children |-> <<Token("a"), then>> \o args]

InitRenderStatementList ==
    \E seq \in StatementSeqs : rin = [kind |-> "statement_list", children |-> seq]

IfStatementFromLark ==
    /\ rpc = "lex"
    /\ rin.kind = "if_statement"
    /\ rnode' = IfStatement_from_lark(rin.children)
    /\ rpc' = IF IsError(rnode') THEN "error" ELSE "built"
    /\ UNCHANGED <<rin, rtext, notRender>>

StatementListFromLark ==
    /\ rpc = "lex"
    /\ rin.kind = "statement_list"
    /\ rnode' = StatementList_from_lark(rin.children)
    /\ rpc' = "built"
    /\ UNCHANGED <<rin, rtext, notRender>>

\* text.split("\n")
RECURSIVE SplitLines(_, _)
SplitLines(text, line) ==
    IF text = <<>> THEN <<line>>
    ELSE IF Head(text) = "\n" THEN <<line>> \o SplitLines(Tail(text), <<>>)
    ELSE SplitLines(Tail(text), Append(line, Head(text)))

LinesOf(text) == SplitLines(text, <<>>)

\* the minimal form: header, the lines of the body one indent unit in, END_IF
MinimalIf(then) ==
    LET body == IF then = NoneValue THEN <<>>
                ELSE [i \in 1..Len(LinesOf(Str(then))) |-> <<INDENT>> \o LinesOf(Str(then))[i]]
    IN  /\ LinesOf(rtext) = <<<<"IF ", "a", " THEN">>>> \o body \o <<<<"END_IF">>>>
        /\ \A i \in 1..Len(rtext) : rtext[i] \notin {"ELSE", "ELSIF "}
        /\ \A i \in 1..Len(LinesOf(rtext)) : LinesOf(rtext)[i] # <<>>

IsMinimalIf ==
    /\ rin.kind = "if_statement"
    /\ rpc = "done"
    /\ rnode[4] = <<>>
    /\ rnode[5] = NoneValue

MaxDecls == 2

Declaration(name, init) ==
    <<"VariableOneInitDeclaration",
      <<"VariableList", <<<<"VariableOne", Token(name), NoneValue>>>>>>, init>>

WithComments(meta_comments, node) ==
    IF meta_comments = <<>> THEN node ELSE <<"Commented", meta_comments, node>>

\* the declarations a var_declarations subtree holds, after merge_comments
RenderDeclarations ==
    {WithComments(cs, Declaration("x", <<"TypeInitialization", NoneValue, Token("INT"), value>>)) :
        cs \in CommentLists, value \in {NoneValue, Token("1")}}

DeclarationSeqs == UNION {[1..n -> RenderDeclarations] : n \in 0..MaxDecls}

InitRenderVarDeclarations ==
    \E config \in {NoneValue, Token("CONSTANT")}, seq \in DeclarationSeqs, cs \in CommentLists :
       rin = [kind |-> "var_declarations", config |-> config,
              items |-> <<"Tree", "var_body", seq>>, comments |-> cs]

VariableDeclarationsFromLark ==
    /\ rpc = "lex"
    /\ rin.kind = "var_declarations"
    /\ rnode' = VariableDeclarations_from_lark(rin.config, rin.items)
    /\ rpc' = "built"
    /\ UNCHANGED <<rin, rtext, notRender>>

\* the rules whose node is a comment consumer and may get comments of its own
CommentedKinds ==
    {"var_declarations", "function_declaration", "function_block_type_declaration",
     "program_declaration", "function_block_method_declaration",
     "single_byte_string_var_declaration"}

\* merge_comments appending the leading comments to the node's meta.comments
AttachComments ==
    /\ rpc = "built"
    /\ rin.kind \in CommentedKinds
    /\ rin.comments # <<>>
    /\ rnode[1] # "Commented"
    /\ rnode' = <<"Commented", rin.comments, rnode>>
    /\ UNCHANGED <<rin, rtext, rpc, notRender>>

Render ==
    /\ rpc = "built"
    /\ rnode[1] \notin {"DirectVariable", "Location"}
    /\ (rin.kind \in CommentedKinds /\ rin.comments # <<>>) => rnode[1] = "Commented"
    /\ rtext' = Str(rnode)
    /\ rpc' = "done"
    /\ UNCHANGED <<rin, rnode, notRender>>

IsComment(piece) == \E cs \in CommentLists : \E i \in 1..Len(cs) : cs[i] = piece

IsCommentLine(line) == \E i \in 1..Len(line) : IsComment(line[i])

CommentsOf(node) == IF node[1] = "Commented" THEN node[2] ELSE <<>>

Bare(node) == IF node[1] = "Commented" THEN node[3] ELSE node

\* the lines a declaration takes in its block: its comments, then its own
\* text and the ';', all one indent unit in
DeclarationLines(decl) ==
    [i \in 1..Len(CommentsOf(decl)) |-> <<INDENT, CommentsOf(decl)[i]>>]
        \o <<<<INDENT>> \o Str(Bare(decl)) \o <<";">>>>

VarHeader == IF rin.config = NoneValue THEN <<"VAR">> ELSE <<"VAR", " ", rin.config[2]>>

\* C16: a comment consumer renders its attached comments, each on its own
\* line, then its own text, all at one indentation; without comments it
\* renders its own text only; a declaration's ';' is on the declaration line.
C16_CommentsBeforeOwnText ==
    (rin.kind = "var_declarations" /\ rpc = "done") =>
       /\ LinesOf(rtext) =
             [i \in 1..Len(rin.comments) |-> <<rin.comments[i]>>]
             \o <<VarHeader>>
             \o Concat([i \in 1..Len(rin.items[3]) |-> DeclarationLines(rin.items[3][i])])
             \o <<<<"END_VAR">>>>
       /\ rin.comments = <<>> => rtext = Str(Bare(rnode))

C16_Witness ==
    /\ rin.kind = "var_declarations"
    /\ rpc = "done"
    /\ Len(rin.comments) = 2
    /\ Len(rin.items[3]) = 2
    /\ Len(CommentsOf(rin.items[3][2])) = 2
    /\ LinesOf(rtext)[Len(LinesOf(rtext)) - 1] = <<INDENT, "x", " : ", "INT", ";">>

Count(line, piece) == Cardinality({i \in 1..Len(line) : line[i] = piece})

EndsWithOneSemicolon(line) == line # <<>> /\ Last(line) = ";" /\ Count(line, ";") = 1

CodeLines(lines) == SelectSeq(lines, LAMBDA line : ~IsCommentLine(line))

\* C19: every declaration of a VAR block and every simple statement or
\* invocation of a StatementList is on a line of its own that ends with
\* exactly one ';'.
C19_OneSemicolonPerLine ==
    /\ (rin.kind = "var_declarations" /\ rpc = "done") =>
          LET lines == CodeLines(LinesOf(rtext))
          IN  /\ Len(lines) = Len(rin.items[3]) + 2
              /\ \A i \in 2..(Len(lines) - 1) : EndsWithOneSemicolon(lines[i])
    /\ (rin.kind = "statement_list" /\ rpc = "done") =>
          IF rin.children = <<>> THEN rtext = <<>>
          ELSE LET lines == CodeLines(LinesOf(rtext))
               IN  /\ Len(lines) = Len(rin.children)
                   /\ \A i \in 1..Len(lines) : EndsWithOneSemicolon(lines[i])

C19_Witness ==
    /\ rin.kind = "statement_list"
    /\ rpc = "done"
    /\ Len(rin.children) = 2
    /\ rin.children[1][1] = "FunctionBlockInvocation"
    /\ rin.children[2][1] = "ResetStatement"
    /\ LinesOf(rtext) = <<<<"a", "(", ")", ";">>, <<"a", " R= ", "b", ";">>>>

(***************************************************************************)
(* Type initializations and program organization units                     *)
(***************************************************************************)
\* what stands where simple_spec_init has its optional indirection: nothing,
\* or an indirection_type subtree with its optional token
IndirectionChildren ==
    {<<>>, <<NoneValue>>, <<Token("POINTER TO")>>, <<Token("REFERENCE TO")>>}

InitRenderTypeInitialization ==
    \E indirection \in IndirectionChildren, value \in {NoneValue, Token("1")} :
       rin = [kind |-> "simple_spec_init", indirection |-> indirection,
              type_name |-> Token("INT"), value |-> value]

IndirectionTypeFromLark ==
    /\ rpc = "lex"
    /\ rin.kind = "simple_spec_init"
    /\ rin.indirection # <<>>
    /\ rnode' = IndirectionType_from_lark(rin.indirection[1])
    /\ rpc' = "child"
    /\ UNCHANGED <<rin, rtext, notRender>>

\* simple_spec_init has no from_lark: the default instantiator, cls(*args)
TypeInitializationFromLark ==
    /\ rin.kind = "simple_spec_init"
    /\ \/ rpc = "child"
       \/ rpc = "lex" /\ rin.indirection = <<>>
    /\ rnode' = <<"TypeInitialization",
                  IF rpc = "child" THEN rnode ELSE NoneValue,
                  rin.type_name, rin.value>>
    /\ rpc' = "built"
    /\ UNCHANGED <<rin, rtext, notRender>>

\* the declaration blocks and bodies of a unit, after merge_comments
RenderBlocks ==
    {<<"VariableDeclarations", NoneValue, <<>>>>}
    \cup {WithComments(cs, <<"VariableDeclarations", NoneValue,
                             <<Declaration("x", <<"TypeInitialization", NoneValue,
                                                  Token("INT"), NoneValue>>)>>>>) :
             cs \in {<<>>, <<"// c1">>}}

BlockSeqs == UNION {[1..n -> RenderBlocks] : n \in 0..MaxDecls}

RenderBodies ==
    {NoneValue,
     <<"FunctionBlockBody", <<"StatementList", <<<<"ExitStatement">>>>>>>>,
     <<"FunctionBlockBody",
       <<"StatementList", <<<<"ResetStatement", Token("a"), Token("b")>>,
                            <<"ReturnStatement">>>>>>>>}

UnitKinds ==
    {"function_declaration", "function_block_type_declaration",
     "program_declaration", "function_block_method_declaration"}

InitRenderUnit ==
    \E kind \in UnitKinds, blocks \in BlockSeqs, body \in RenderBodies,
       cs \in CommentLists, flag \in {NoneValue, Token("ABSTRACT")},
       extra \in {NoneValue, Token("INT")} :
       rin = [kind |-> kind, name |-> Token("f"), declarations |-> blocks,
              body |-> body, comments |-> cs,
              abstract |-> IF kind = "function_block_type_declaration" THEN flag
                           ELSE NoneValue,
              access |-> IF kind = "function_block_method_declaration" /\ flag # NoneValue
                         THEN <<"MethodAccess", <<"PUBLIC">>>> ELSE NoneValue,
              extends |-> IF kind = "function_block_type_declaration" /\ extra # NoneValue
                          THEN <<"Extends", Token("g")>> ELSE NoneValue,
              return_type |-> IF kind \in {"function_declaration",
                                           "function_block_method_declaration"}
                              THEN extra ELSE NoneValue]

\* the optional subtree of declarations Function and Program are handed
DeclarationsTree ==
    IF rin.declarations = <<>> THEN NoneValue
    ELSE <<"Tree", "function_var_decls", rin.declarations>>

FunctionFromLark ==
    /\ rpc = "lex"
    /\ rin.kind = "function_declaration"
    /\ rnode' = Function_from_lark(rin.name, rin.return_type, DeclarationsTree, rin.body)
    /\ rpc' = "built"
    /\ UNCHANGED <<rin, rtext, notRender>>

FunctionBlockFromLark ==
    /\ rpc = "lex"
    /\ rin.kind = "function_block_type_declaration"
    /\ rnode' = FunctionBlock_from_lark(rin.abstract, rin.name, rin.extends,
                                        rin.declarations \o <<rin.body>>)
    /\ rpc' = "built"
    /\ UNCHANGED <<rin, rtext, notRender>>

ProgramFromLark ==
    /\ rpc = "lex"
    /\ rin.kind = "program_declaration"
    /\ rnode' = Program_from_lark(rin.name, DeclarationsTree, rin.body)
    /\ rpc' = "built"
    /\ UNCHANGED <<rin, rtext, notRender>>

MethodFromLark ==
    /\ rpc = "lex"
    /\ rin.kind = "function_block_method_declaration"
    /\ rnode' = Method_from_lark(rin.access, rin.name, rin.return_type,
                                 rin.declarations \o <<rin.body>>)
    /\ rpc' = "built"
    /\ UNCHANGED <<rin, rtext, notRender>>

Separators == {" ", " := ", " : ", ", "}

NoStraySeparator(line) ==
    line # <<>> =>
       /\ line[1] \notin Separators
       /\ Last(line) \notin Separators
       /\ \A i \in 1..(Len(line) - 1) : ~(line[i] \in Separators /\ line[i + 1] \in Separators)

\* the line of a rendered node that holds its optional qualifiers
HeaderLine == LinesOf(Str(Bare(rnode)))[1]

\* C17: optional qualifiers and parts (indirection, CONSTANT, ABSTRACT,
\* EXTENDS, access, return type) add text only when present: absent or of
\* the 'none' variant, they leave no leading, trailing or doubled separator.
C17_AbsentQualifiersAddNothing ==
    (/\ rpc = "done"
     /\ rin.kind \in {"simple_spec_init", "var_declarations",
                      "function_block_type_declaration",
                      "function_block_method_declaration"})
    => NoStraySeparator(HeaderLine)

UnitKeyword ==
    CASE rin.kind = "function_declaration" -> "FUNCTION"
      [] rin.kind = "function_block_type_declaration" -> "FUNCTION_BLOCK"
      [] rin.kind = "program_declaration" -> "PROGRAM"
      [] rin.kind = "function_block_method_declaration" -> "METHOD"

OneUnitIn(value) ==
    IF value = NoneValue THEN <<>>
    ELSE [i \in 1..Len(LinesOf(Str(value))) |-> <<INDENT>> \o LinesOf(Str(value))[i]]

\* C18: every unit kind renders a header line, each declaration block and
\* the body one indent unit in from the header, and the closing keyword at
\* the header's level, alike for all four unit kinds.
C18_UnitsIndentAlike ==
    (rin.kind \in UnitKinds /\ rpc = "done") =>
       LET lines == LinesOf(Str(Bare(rnode)))
       IN  /\ lines[1][1] = UnitKeyword
           /\ Last(lines) = <<"END_" \o UnitKeyword>>
           /\ SubSeq(lines, 2, Len(lines) - 1) =
                 Concat([i \in 1..Len(rin.declarations) |-> OneUnitIn(rin.declarations[i])])
                 \o OneUnitIn(rin.body)

(***************************************************************************)
(* String declarations                                                     *)
(***************************************************************************)
InitRenderStringDeclaration ==
    \E length \in {NoneValue, Token("[10]")}, value \in {<<>>, <<Token(":="), Token("'a'")>>},
       cs \in CommentLists :
       rin = [kind |-> "single_byte_string_var_declaration",
              variables |-> <<"VariableList", <<<<"VariableOne", Token("s"), NoneValue>>>>>>,
              string_info |-> <<Token("STRING"), length>> \o value,
              comments |-> cs]

StringTypeInitializationFromLark ==
    /\ rpc = "lex"
    /\ rin.kind = "single_byte_string_var_declaration"
    /\ rnode' = StringTypeInitialization_from_lark(rin.string_info)
    /\ rpc' = "child"
    /\ UNCHANGED <<rin, rtext, notRender>>

StringVariableInitDeclarationFromLark ==
    /\ rpc = "child"
    /\ rin.kind = "single_byte_string_var_declaration"
    /\ rnode' = StringVariableInitDeclaration_from_lark(rin.variables, rnode)
    /\ rpc' = "built"
    /\ UNCHANGED <<rin, rtext, notRender>>

\* C27: no node renders the text 'None' for an absent optional field: a
\* Function without return type has no ' : None' in its header, a string
\* declaration without initial value no ' := None'.
C27_NoNoneInText ==
    rpc = "done" => \A i \in 1..Len(rtext) : rtext[i] # "None"

(***************************************************************************)
(* SpecRender                                                              *)
(***************************************************************************)
InitRender ==
    /\ IdleMerge
    /\ IdleParse
    /\ IdleTrans
    /\ IdleLex /\ IdleEngine /\ IdleAnnot /\ IdleRegistry /\ IdleDomain
    /\ \/ InitRenderInteger
       \/ InitRenderDuration
       \/ InitRenderDirectVariable
       \/ InitRenderIf
       \/ InitRenderStatementList
       \/ InitRenderVarDeclarations
       \/ InitRenderTypeInitialization
       \/ InitRenderUnit
       \/ InitRenderStringDeclaration
    /\ rnode = <<>>
    /\ rtext = <<>>
    /\ rpc = "lex"

NextRender ==
    \/ IntegerBased
    \/ IntegerLiteral
    \/ DurationFromLark
    \/ DirectVariableFromLark
    \/ LocationFromLark
    \/ RenderDirectVariable
    \/ IfStatementFromLark
    \/ StatementListFromLark
    \/ VariableDeclarationsFromLark
    \/ AttachComments
    \/ IndirectionTypeFromLark
    \/ TypeInitializationFromLark
    \/ FunctionFromLark
    \/ FunctionBlockFromLark
    \/ ProgramFromLark
    \/ MethodFromLark
    \/ StringTypeInitializationFromLark
    \/ StringVariableInitDeclarationFromLark
    \/ Render

SpecRender == InitRender /\ [][NextRender]_vars

(***************************************************************************)
(* SpecLex: the comment and pragma patterns of parse_source_code           *)
(***************************************************************************)
MaxSrcLen == 5

Chars == {"/", "(", "*", ")", "{", "}", "\n", "\r", "a"}

SourceTexts == UNION {[1..n -> Chars] : n \in 0..MaxSrcLen}

\* re.DOTALL: the dot matches every character, the line break included
Dot(c) == c \in Chars

\* re.MULTILINE: $ matches at the end of the text and before a line break
Dollar(src, e) == e = Len(src) \/ src[e + 1] = "\n"

Max(S) == CHOOSE x \in S : \A y \in S : y <= x

Min(S) == CHOOSE x \in S : \A y \in S : x <= y

\* where (//.*$|\(\*.*?\*\)) ends when tried at i, 0 when it fails there:
\* the first alternative with a greedy .*, then the second with a lazy .*?
RE_COMMENT(src, i) ==
    LET lineEnds == {e \in (i + 1)..Len(src) :
                        /\ \A k \in (i + 2)..e : Dot(src[k])
                        /\ Dollar(src, e)}
        closers == {k \in (i + 2)..(Len(src) - 1) :
                        /\ \A j \in (i + 2)..(k - 1) : Dot(src[j])
                        /\ src[k] = "*" /\ src[k + 1] = ")"}
    IN  IF i + 1 <= Len(src) /\ src[i] = "/" /\ src[i + 1] = "/" /\ lineEnds # {}
           THEN Max(lineEnds)
        ELSE IF i + 1 <= Len(src) /\ src[i] = "(" /\ src[i + 1] = "*" /\ closers # {}
           THEN Min(closers) + 1
        ELSE 0

\* where {[^}]*?} ends when tried at i, 0 when it fails there
RE_PRAGMA(src, i) ==
    LET closers == {k \in (i + 1)..Len(src) :
                        /\ \A j \in (i + 1)..(k - 1) : src[j] # "}"
                        /\ src[k] = "}"}
    IN  IF src[i] = "{" /\ closers # {} THEN Min(closers) ELSE 0

PairAtBreak(src, b) == b + 1 <= Len(src) /\ src[b] = "\r" /\ src[b + 1] = "\n"

RECURSIVE finditer(_, _, _)
\* the non-overlapping matches from pos on, leftmost first
finditer(pattern, src, pos) ==
    IF pos > Len(src) THEN <<>>
    ELSE LET e == IF pattern = "RE_COMMENT" THEN RE_COMMENT(src, pos)
                  ELSE RE_PRAGMA(src, pos)
         IN  IF e = 0 THEN finditer(pattern, src, pos + 1)
             ELSE <<<<pattern, pos, e>>>> \o finditer(pattern, src, e + 1)

\* str.splitlines: the lines of src from position pos on, a line ending at
\* "\n", "\r" or the pair "\r\n", which is not part of the line
RECURSIVE splitlines(_, _)
splitlines(src, pos) ==
    IF pos > Len(src) THEN <<>>
    ELSE LET breaks == {k \in pos..Len(src) : src[k] \in {"\n", "\r"}}
             b == IF breaks = {} THEN Len(src) + 1 ELSE Min(breaks)
             after == IF PairAtBreak(src, b) THEN b + 2 ELSE b + 1
         IN  <<SubSeq(src, pos, b - 1)>> \o splitlines(src, after)

RECURSIVE LineMapFrom(_, _)
\* the entries the loop adds for the lines from number n on: len(line) + 1
\* offsets for each line
LineMapFrom(lines, n) ==
    IF n > Len(lines) THEN <<>>
    ELSE [i \in 1..(Len(lines[n]) + 1) |-> n] \o LineMapFrom(lines, n + 1)

_build_map_of_offset_to_line_number(source) == LineMapFrom(splitlines(source, 1), 1)

InitLex ==
    /\ IdleMerge /\ IdleParse /\ IdleTrans /\ IdleRender /\ IdleEngine /\ IdleAnnot /\ IdleRegistry /\ IdleDomain
    /\ lsrc \in SourceTexts
    /\ lfound = <<>>
    /\ lmap = <<>>
    /\ lpc = "parsed"

\* pragmas = RE_PRAGMA.findall(source_code)
FindPragmas ==
    /\ lpc = "parsed"
    /\ lfound' = finditer("RE_PRAGMA", lsrc, 1)
    /\ lpc' = "pragmas"
    /\ UNCHANGED <<lsrc, lmap, notLex>>

\* line_numbers = _build_map_of_offset_to_line_number(source_code)
BuildLineMap ==
    /\ lpc = "pragmas"
    /\ lmap' = _build_map_of_offset_to_line_number(lsrc)
    /\ lpc' = "lines"
    /\ UNCHANGED <<lsrc, lfound, notLex>>

\* comments = list(RE_COMMENT.finditer(source_code))
FindComments ==
    /\ lpc = "lines"
    /\ lfound' = lfound \o finditer("RE_COMMENT", lsrc, 1)
    /\ lpc' = "comments"
    /\ UNCHANGED <<lsrc, lmap, notLex>>

\* return tree: the matches are locals and go with the call
ReturnTree ==
    /\ lpc = "comments"
    /\ lfound' = <<>>
    /\ lmap' = <<>>
    /\ lpc' = "done"
    /\ UNCHANGED <<lsrc, notLex>>

NextLex == FindPragmas \/ BuildLineMap \/ FindComments \/ ReturnTree

SpecLex == InitLex /\ [][NextLex]_vars

PairAt(src, k, a, b) == k + 1 <= Len(src) /\ src[k] = a /\ src[k + 1] = b

LineCommentAsStated(m) ==
    /\ \A k \in m[2]..m[3] : lsrc[k] # "\n"
    /\ m[3] = Len(lsrc) \/ lsrc[m[3] + 1] = "\n"

BlockCommentAsStated(m) ==
    /\ PairAt(lsrc, m[3] - 1, "*", ")")
    /\ \A k \in (m[2] + 2)..(m[3] - 2) : ~PairAt(lsrc, k, "*", ")")

PragmaAsStated(m) ==
    /\ lsrc[m[2]] = "{" /\ lsrc[m[3]] = "}"
    /\ \A k \in (m[2] + 1)..(m[3] - 1) : lsrc[k] # "}"

\* C20: a '//' comment is matched from '//' to the end of the line it starts
\* on and never across a line break; a '(* ... *)' comment to the first
\* following '*)', even across lines; a pragma from '{' to the first
\* following '}', even across lines.
C20_PatternsMatchAsStated ==
    lpc = "comments" =>
       \A n \in 1..Len(lfound) :
          LET m == lfound[n]
          IN  IF m[1] = "RE_PRAGMA" THEN PragmaAsStated(m)
              ELSE IF PairAt(lsrc, m[2], "/", "/") THEN LineCommentAsStated(m)
              ELSE BlockCommentAsStated(m)

\* the line breaks that are complete before offset o (position o + 1)
LineBreaksBefore(src, o) ==
    Cardinality({k \in 1..o : \/ src[k] = "\n"
                              \/ src[k] = "\r" /\ ~PairAtBreak(src, k)})

\* C21: the map gives every character offset of the source the 1-based
\* number of its line, 1 + the line breaks before the offset, also with
\* CRLF line endings, and the line numbers do not decrease with the offset.
C21_LineMapCoversEveryOffset ==
    lpc = "lines" =>
       /\ \A o \in 0..(Len(lsrc) - 1) :
             /\ o + 1 <= Len(lmap)
             /\ lmap[o + 1] = 1 + LineBreaksBefore(lsrc, o)
       /\ \A o \in 1..(Len(lmap) - 1) : lmap[o] <= lmap[o + 1]

(***************************************************************************)
(* SpecEngine, SpecEngineConcurrent: get_parser and the module's _PARSER   *)
(***************************************************************************)
MaxEngineCalls == 4

Threads == {1, 2}

EngineOps == {"get_parser", "parse_source_code"}

ParserIsNone_Always(parser) == TRUE

\* if _PARSER is None
ParserIsNone(parser) == parser = NoneValue

Caller(pos, op, engine) == [pc |-> pos, op |-> op, engine |-> engine]

\* one caller: the calls of one thread, one after the other
InitEngine ==
    /\ IdleMerge /\ IdleParse /\ IdleTrans /\ IdleRender /\ IdleLex /\ IdleAnnot /\ IdleRegistry /\ IdleDomain
    /\ _PARSER = NoneValue
    /\ built = 0
    /\ ecalls = 0
    /\ callers = [t \in Threads |-> Caller(IF t = 1 THEN "idle" ELSE "off", "", NoneValue)]
    /\ ehist = <<>>

\* two callers whose steps interleave
InitEngineConcurrent ==
    /\ IdleMerge /\ IdleParse /\ IdleTrans /\ IdleRender /\ IdleLex /\ IdleAnnot /\ IdleRegistry /\ IdleDomain
    /\ _PARSER = NoneValue
    /\ built = 0
    /\ ecalls = 0
    /\ callers = [t \in Threads |-> Caller("idle", "", NoneValue)]
    /\ ehist = <<>>

\* a call of get_parser, or of parse_source_code, which calls get_parser first
CallEngine(t, op) ==
    /\ callers[t].pc = "idle"
    /\ ecalls < MaxEngineCalls
    /\ ecalls' = ecalls + 1
    /\ callers' = [callers EXCEPT ![t] = Caller("check", op, NoneValue)]
    /\ UNCHANGED <<_PARSER, built, ehist, notEngine>>

CheckParser(t) ==
    /\ callers[t].pc = "check"
    /\ callers' = [callers EXCEPT ![t].pc =
                      IF ParserIsNone(_PARSER) THEN "construct" ELSE "return"]
    /\ UNCHANGED <<_PARSER, built, ecalls, ehist, notEngine>>

\* lark.Lark(lark_grammar, parser='earley')
ConstructLark(t) ==
    /\ callers[t].pc = "construct"
    /\ built' = built + 1
    /\ callers' = [callers EXCEPT ![t] = Caller("assign", callers[t].op, <<"Lark", built + 1>>)]
    /\ UNCHANGED <<_PARSER, ecalls, ehist, notEngine>>

\* _PARSER = ...
AssignParser(t) ==
    /\ callers[t].pc = "assign"
    /\ _PARSER' = callers[t].engine
    /\ callers' = [callers EXCEPT ![t].pc = "return"]
    /\ UNCHANGED <<built, ecalls, ehist, notEngine>>

\* return _PARSER
ReturnParser(t) ==
    /\ callers[t].pc = "return"
    /\ ehist' = Append(ehist, <<t, callers[t].op, _PARSER>>)
    /\ callers' = [callers EXCEPT ![t] =
                      IF callers[t].op = "get_parser" THEN Caller("idle", "", NoneValue)
                      ELSE Caller("parse", callers[t].op, _PARSER)]
    /\ UNCHANGED <<_PARSER, built, ecalls, notEngine>>

\* tree = get_parser().parse(source_code) returns a tree
EngineParses(t) ==
    /\ callers[t].pc = "parse"
    /\ ehist' = Append(ehist, <<t, "tree", callers[t].engine>>)
    /\ callers' = [callers EXCEPT ![t] = Caller("idle", "", NoneValue)]
    /\ UNCHANGED <<_PARSER, built, ecalls, notEngine>>

\* ... or raises, and parse_source_code raises it again
EngineRaises(t) ==
    /\ callers[t].pc = "parse"
    /\ ehist' = Append(ehist, <<t, "raised", callers[t].engine>>)
    /\ callers' = [callers EXCEPT ![t] = Caller("idle", "", NoneValue)]
    /\ UNCHANGED <<_PARSER, built, ecalls, notEngine>>

NextEngine ==
    \E t \in Threads :
       \/ \E op \in EngineOps : CallEngine(t, op)
       \/ CheckParser(t)
       \/ ConstructLark(t)
       \/ AssignParser(t)
       \/ ReturnParser(t)
       \/ EngineParses(t)
       \/ EngineRaises(t)

SpecEngine == InitEngine /\ [][NextEngine]_vars

SpecEngineConcurrent == InitEngineConcurrent /\ [][NextEngine]_vars

OneEngineForAll ==
    /\ built <= 1
    /\ \A i \in 1..Len(ehist) : ehist[i][3] = <<"Lark", 1>>

\* C22: over any sequence of get_parser and parse_source_code calls the
\* engine is constructed exactly once, on the first call, and every call
\* returns that one instance, also after a parse that raised.
C22_EngineConstructedOnce ==
    /\ OneEngineForAll
    /\ _PARSER \in {NoneValue, <<"Lark", 1>>}
    /\ (ehist # <<>> \/ ecalls >= 2) => built = 1
    /\ built = 1 => ecalls >= 1

C22_Witness ==
    \E i, j \in 1..Len(ehist) :
       /\ i < j
       /\ ehist[i][2] = "raised"
       /\ ehist[j][2] \in EngineOps
       /\ ehist[j][3] = <<"Lark", 1>>
       /\ built = 1

\* C29: when two callers run get_parser concurrently while no engine exists,
\* still one engine is constructed and both receive the same instance.
C29_OneEngineUnderConcurrency ==
    /\ built <= 1
    /\ \A i, j \in 1..Len(ehist) : ehist[i][3] = ehist[j][3]

(***************************************************************************)
(* SpecAnnotate: the objects handlers return and the meta they are given   *)
(***************************************************************************)
MaxAnnotCalls == 4

MaxFiles == 2

\* the members the Enum classes create once, when the module is imported
EnumMembers ==
    <<<<"IndirectionType", "NONE">>, <<"IndirectionType", "POINTER TO">>,
      <<"IndirectionType", "REFERENCE TO">>,
      <<"IncompleteLocation", "%I*">>, <<"IncompleteLocation", "%Q*">>>>

EnumRules ==
    [indirection_type |-> "IndirectionType", incomplete_location |-> "IncompleteLocation"]

\* the dataclass that takes a member of the class as its child
HolderOf == [IndirectionType |-> "TypeInitialization", IncompleteLocation |-> "VariableOne"]

Object(cls, meta, children) == [cls |-> cls, meta |-> meta, children |-> children]

\* from_lark of an Enum class looks the member up: no object is created
MemberOf(cls, token) ==
    CHOOSE m \in 1..Len(EnumMembers) : EnumMembers[m] = <<cls, token>>

\* result.meta = meta
annotate(heap, id, meta) == [heap EXCEPT ![id].meta = meta]

InitAnnotate ==
    /\ IdleMerge /\ IdleParse /\ IdleTrans /\ IdleRender /\ IdleLex /\ IdleEngine /\ IdleRegistry /\ IdleDomain
    /\ objs = [m \in 1..Len(EnumMembers) |-> Object(EnumMembers[m][1], NoneValue, <<>>)]
    /\ apending = 0
    /\ afile = 1
    /\ acalls = 0

\* _annotator_wrapper around IndirectionType.from_lark or
\* IncompleteLocation.from_lark
AnnotateEnum ==
    \E rule \in DOMAIN EnumRules, m \in 1..Len(EnumMembers) :
       /\ apending = 0
       /\ acalls < MaxAnnotCalls
       /\ EnumMembers[m][1] = EnumRules[rule]
       /\ LET id == MemberOf(EnumRules[rule], EnumMembers[m][2])
          IN  /\ objs' = annotate(objs, id, <<afile, acalls + 1>>)
              /\ apending' = id
       /\ acalls' = acalls + 1
       /\ UNCHANGED <<afile, notAnnot>>

\* _annotator_wrapper around the default instantiator of the dataclass that
\* holds the child: a new object
AnnotateDataclass ==
    /\ apending # 0
    /\ acalls < MaxAnnotCalls
    /\ objs' = annotate(Append(objs, Object(HolderOf[objs[apending].cls], NoneValue,
                                            <<apending>>)),
                        Len(objs) + 1, <<afile, acalls + 1>>)
    /\ apending' = 0
    /\ acalls' = acalls + 1
    /\ UNCHANGED <<afile, notAnnot>>

\* the transformer is given the next file's tree
NextFile ==
    /\ apending = 0
    /\ afile < MaxFiles
    /\ afile' = afile + 1
    /\ UNCHANGED <<objs, apending, acalls, notAnnot>>

NextAnnotate == AnnotateEnum \/ AnnotateDataclass \/ NextFile

SpecAnnotate == InitAnnotate /\ [][NextAnnotate]_vars

ParentsOf(id) == {p \in 1..Len(objs) : \E c \in 1..Len(objs[p].children) : objs[p].children[c] = id}

\* C23: every value that was given a meta, Enum-valued ones included, is held
\* by one parent only, within a tree and across files, and so keeps the meta
\* of its own occurrence: the one of the handler call before its parent's.
C23_NoNodeSharedByTwoParents ==
    \A id \in 1..Len(objs) :
       objs[id].meta # NoneValue =>
          /\ Cardinality(ParentsOf(id)) <= 1
          /\ \A p \in ParentsOf(id) :
                objs[id].meta = <<objs[p].meta[1], objs[p].meta[2] - 1>>

(***************************************************************************)
(* SpecRegistry: _rule_handler and the rule-to-handler table               *)
(***************************************************************************)
MaxRegistrations == 3

MaxRules == 2

RuleNames == {"expression", "if_statement", "case_statement"}

HandlerClasses == {"BinaryOperation", "IfStatement", "CaseStatement"}

\* the rules one decorator call is given
RuleTuples == UNION {[1..n -> RuleNames] : n \in 1..MaxRules}

IsRegistered_Never(table, rule) == FALSE

\* handler = _rule_to_handler.get(rule, None); handler is not None
IsRegistered(table, rule) == rule \in DOMAIN table

RECURSIVE RegisterFrom(_, _, _, _)
\* the loop of wrapper from the k-th rule on: the table it leaves, and whether
\* it raised
RegisterFrom(table, cls, rules, k) ==
    IF k > Len(rules) THEN [table |-> table, outcome |-> "ok"]
    ELSE IF IsRegistered(table, rules[k]) THEN [table |-> table, outcome |-> "ValueError"]
    ELSE RegisterFrom(SetItem(table, rules[k], cls), cls, rules, k + 1)

InitRegistry ==
    /\ IdleMerge /\ IdleParse /\ IdleTrans /\ IdleRender /\ IdleLex /\ IdleEngine /\ IdleAnnot /\ IdleDomain
    /\ _rule_to_handler = <<>>
    /\ _lark_ = [cls \in HandlerClasses |-> <<>>]
    /\ regLast = <<>>
    /\ regCalls = 0
    /\ classHandlers = <<>>

\* @_rule_handler(*rules) applied to cls
RuleHandler ==
    \E cls \in HandlerClasses, rules \in RuleTuples :
       /\ regCalls < MaxRegistrations
       /\ LET done == RegisterFrom(_rule_to_handler, cls, rules, 1)
          IN  /\ _rule_to_handler' = done.table
              /\ _lark_' = IF done.outcome = "ok" THEN [_lark_ EXCEPT ![cls] = rules]
                           ELSE _lark_
              /\ regLast' = [cls |-> cls, rules |-> rules, outcome |-> done.outcome]
       /\ regCalls' = regCalls + 1
       /\ classHandlers' = <<>>
       /\ UNCHANGED notRegistry

\* the (class, rule) pairs the loops of _get_class_handlers meet
SeenRules ==
    {<<cls, k>> : cls \in HandlerClasses, k \in 1..MaxRules} \cap
    {p \in HandlerClasses \X (1..MaxRules) : p[2] <= Len(_lark_[p[1]])}

\* _get_class_handlers: result[token_name] = cls.from_lark, ValueError when a
\* name is seen twice
GetClassHandlers ==
    /\ regCalls > 0
    /\ classHandlers = <<>>
    /\ classHandlers' =
          IF \E p, q \in SeenRules : p # q /\ _lark_[p[1]][p[2]] = _lark_[q[1]][q[2]]
          THEN <<"ValueError">>
          ELSE <<"dict", [rule \in {_lark_[p[1]][p[2]] : p \in SeenRules} |->
                            CHOOSE cls \in HandlerClasses :
                               \E k \in 1..Len(_lark_[cls]) : _lark_[cls][k] = rule]>>
    /\ UNCHANGED <<_rule_to_handler, _lark_, regLast, regCalls, notRegistry>>

NextRegistry == RuleHandler \/ GetClassHandlers

SpecRegistry == InitRegistry /\ [][NextRegistry]_vars

\* a rule of the call that was present before, or is given twice in the call
HasDuplicate(table, rules) ==
    \/ \E k \in 1..Len(rules) : rules[k] \in DOMAIN table
    \/ \E j, k \in 1..Len(rules) : j # k /\ rules[j] = rules[k]

\* C25: each rule name has one handler class: a registration of a name that
\* is already present raises ValueError and leaves the earlier handler of
\* every name in place; one without such a name registers all its names;
\* and the handlers _get_class_handlers collects are those of the table.
C25_DuplicateRegistrationRaises ==
    [][/\ regCalls' = regCalls + 1 =>
            /\ \A rule \in DOMAIN _rule_to_handler :
                  /\ rule \in DOMAIN _rule_to_handler'
                  /\ _rule_to_handler'[rule] = _rule_to_handler[rule]
            /\ HasDuplicate(_rule_to_handler, regLast'.rules)
                  <=> regLast'.outcome = "ValueError"
            /\ regLast'.outcome = "ok" =>
                  \A k \in 1..Len(regLast'.rules) :
                     _rule_to_handler'[regLast'.rules[k]] = regLast'.cls
       /\ classHandlers' # classHandlers /\ classHandlers' # <<>> =>
            /\ classHandlers'[1] = "dict"
            /\ \A rule \in DOMAIN classHandlers'[2] :
                  /\ rule \in DOMAIN _rule_to_handler
                  /\ classHandlers'[2][rule] = _rule_to_handler[rule]]_vars

C25_Witness ==
    /\ regLast # <<>>
    /\ regLast.outcome = "ValueError"
    /\ \E rule \in DOMAIN _rule_to_handler :
          /\ \E k \in 1..Len(regLast.rules) : regLast.rules[k] = rule
          /\ _rule_to_handler[rule] # regLast.cls
    /\ Cardinality(DOMAIN _rule_to_handler) >= 2

(***************************************************************************)
(* SpecDomain: BlarkDomain, its directives and find_obj                    *)
(***************************************************************************)
MaxDirectives == 3

Targets == {"f", "g"}

\* object_types in the order of the dict: the type name and the roles of its
\* ObjType, which are the arguments after the first
object_types ==
    <<[typename |-> "function_block", roles |-> {"function_block", "fb"}],
      [typename |-> "function", roles |-> {"func"}],
      [typename |-> "type", roles |-> {"type"}],
      [typename |-> "module", roles |-> {"mod"}],
      [typename |-> "variable_block", roles |-> {"var"}],
      [typename |-> "source_code", roles |-> {"plc_source"}],
      [typename |-> "declaration", roles |-> {"declaration"}]>>

\* the directives with declarations and the lower-cased signature_prefix of each
directives == [function_block |-> "function_block", function |-> "function"]

roles == {"function_block", "function", "fb", "type", "mod", "declaration"}

initial_data ==
    {"module", "type", "function", "declaration", "function_block", "method", "action"}

InitDomain ==
    /\ IdleMerge /\ IdleParse /\ IdleTrans /\ IdleRender /\ IdleLex /\ IdleEngine /\ IdleAnnot
    /\ IdleRegistry
    /\ domaindata = [table \in initial_data |-> [target \in {} |-> <<>>]]
    /\ dfound = <<>>
    /\ dcalls = 0

\* handle_signature of a function or function_block directive whose object
\* the cache knows: domain_data.setdefault(sig, []).append(signode)
HandleSignature ==
    \E directive \in DOMAIN directives, sig \in Targets :
       /\ dcalls < MaxDirectives
       /\ LET table == directives[directive]
              before == IF sig \in DOMAIN domaindata[table]
                        THEN domaindata[table][sig] ELSE <<>>
              signode == [ids |-> sig, docname |-> dcalls + 1, directive |-> directive]
          IN  domaindata' = [domaindata EXCEPT ![table] =
                                SetItem(@, sig, Append(before, signode))]
       /\ dcalls' = dcalls + 1
       /\ UNCHANGED <<dfound, notDomain>>

\* the index of the first object type that has the role, 0 after the loop's else
FirstTypeWithRole(rolename) ==
    LET hits == {k \in 1..Len(object_types) : rolename \in object_types[k].roles}
    IN  IF hits = {} THEN 0 ELSE CHOOSE k \in hits : \A h \in hits : k <= h

find_obj(rolename, targetstring) ==
    LET k == FirstTypeWithRole(rolename)
    IN  IF k = 0 THEN <<>>
        ELSE IF object_types[k].typename \notin DOMAIN domaindata THEN <<"KeyError">>
        ELSE IF targetstring \in DOMAIN domaindata[object_types[k].typename]
             THEN domaindata[object_types[k].typename][targetstring]
        ELSE <<>>

\* resolve_xref calling find_obj for a reference made with a registered role
FindObj ==
    \E rolename \in roles, target \in Targets :
       /\ dfound' = [role |-> rolename, target |-> target,
                     result |-> find_obj(rolename, target)]
       /\ UNCHANGED <<domaindata, dcalls, notDomain>>

NextDomain == HandleSignature \/ FindObj

SpecDomain == InitDomain /\ [][NextDomain]_vars

\* C30: for every registered role find_obj reads a table that exists in
\* initial_data and returns the nodes registered for the target; a target
\* registered by the function directive is found through the 'function' role.
C30_EveryRoleFindsItsTargets ==
    dfound # <<>> =>
       /\ dfound.result # <<"KeyError">>
       /\ FirstTypeWithRole(dfound.role) # 0
       /\ (dfound.role = "function" /\ dfound.target \in DOMAIN domaindata["function"])
             => dfound.result = domaindata["function"][dfound.target]

====
